---- MODULE Spec2Model ----
(***************************************************************************)
(* Job orchestration and admission of the media-conversion backend:        *)
(* jobs.Module (job rows, lifecycle calls), jobs.Handler (the asynq task   *)
(* handler), jobs.QueueClient (enqueue), subscription.Service (usage and   *)
(* tier limits) and websocket.Hub (per-job fan-out to connected clients).  *)
(*                                                                         *)
(* One SQL statement, one channel operation or one queue operation is one  *)
(* atomic step; a method that issues several statements is several steps.  *)
(***************************************************************************)
EXTENDS Integers, Sequences, FiniteSets, TLC

(***************************************************************************)
(* Bounds of the model.                                                    *)
(***************************************************************************)
MaxJobs == 2          \* job ids handed out by uuid.New() in CreateJob
LifeJobs == 1         \* submissions followed through the worker in Spec and SpecHub
MaxTime == 1          \* time.Now() / NOW() takes the values 0..MaxTime
MaxClients == 2       \* websocket connections accepted by HandleConnection
SendBuf == 2          \* capacity of Client.send (make(chan []byte, 256))
MaxRedeliver == 1     \* redeliveries of one task after a lost lease
MaxCount == 2         \* the counters of published frames stop at MaxCount
MaxHours == 170       \* SpecFiles lets the clock run up to MaxHours
MaxSeconds == 3700     \* SpecCalc computes the minutes of durations up to MaxSeconds
MaxUsed == 60         \* SpecUsage adds small amounts of minutes up to MaxUsed

(***************************************************************************)
(* Program constants.                                                      *)
(***************************************************************************)
MaxRetry == 3             \* asynq.MaxRetry(3)
WorkerConcurrency == 2    \* WORKER_CONCURRENCY default
ListLimit == 50           \* ListJobs: LIMIT 50

JobIDs == 1..MaxJobs
Clients == 1..MaxClients
Watchers == {1}                         \* the connection SpecHub follows
UserIDs == {"u1", "anonymous"}          \* middleware.GetUser(...).ID, or "anonymous"
InputFileIDs == {"f1", "f2"}            \* rows of the files table made by upload
FileIDChoices == {"f1", "missing"}      \* inputFileId of a request
MaxInt4 == 2147483647                   \* user_profiles.conversion_minutes_used INT
MinuteChoices == {0 - MaxInt4, 0 - 50, 0 - 1, 0, 1, 50, MaxInt4}   \* minutes of a direct call
DurationChoices == {0, 3000}            \* inputDurationSeconds of a request
PercentChoices == {50}                  \* percent values the media tool reports
Tiers == {"free", "basic", "standard", "pro"}
TierChoices == {"free", "basic", "pro"}  \* tiers a subscription change sets
FileZones == {"upload", "working", "output"}    \* CREATE TYPE file_zone
UploadExpiry == 24                      \* storage.Service.Store: Add(24 * time.Hour)
OutputExpiry == 7 * 24                  \* HandleMediaProcess: Add(7*24*time.Hour)
HourChoices == {UploadExpiry + 1, OutputExpiry + 1}  \* hours that pass in one step of SpecFiles

NULL == "NULL"
NullTime == 0 - 1
NullID == 1 - 1

StatusQueued == "queued"
StatusProcessing == "processing"
StatusCompleted == "completed"
StatusFailed == "failed"
StatusCancelled == "cancelled"
NoRowStatus == "norow"                  \* marks an id with no row in jobs
TerminalStatuses == {StatusCompleted, StatusFailed, StatusCancelled}

(***************************************************************************)
(* subscription: tier limits and the minutes formula.                      *)
(***************************************************************************)
\* MaxFileSizeBytes is counted in units of 1 MiB (TLC's integers have 32 bits)
tierLimits ==
  [free     |-> [ConversionMinutes |-> 50,   MaxFileSizeBytes |-> 500,
                 Priority |-> "default",  UseGPUEncoding |-> FALSE],
   basic    |-> [ConversionMinutes |-> 1500, MaxFileSizeBytes |-> 1536,
                 Priority |-> "high",     UseGPUEncoding |-> FALSE],
   standard |-> [ConversionMinutes |-> 2000, MaxFileSizeBytes |-> 2048,
                 Priority |-> "critical", UseGPUEncoding |-> FALSE],
   pro      |-> [ConversionMinutes |-> 4000, MaxFileSizeBytes |-> 5120,
                 Priority |-> "critical", UseGPUEncoding |-> TRUE]]

\* A lookup that gives an unknown tier the limits of basic
GetTierLimitsOrBasic(tier) ==
  IF tier \in DOMAIN tierLimits THEN tierLimits[tier] ELSE tierLimits["basic"]

GetTierLimits(tier) ==
  IF tier \in DOMAIN tierLimits THEN tierLimits[tier] ELSE tierLimits["free"]

\* Minutes counted as the whole minutes of the duration plus one
MinutesOfFractionPlusOne(n, d) ==
  IF n <= 0 THEN 1 ELSE n \div (60 * d) + 1

\* ConversionMinutesFromDuration on the duration n/d seconds (d > 0):
\* 1 when it is <= 0, else int(math.Ceil(seconds / 60)). The float64 division
\* and Ceil give the exact ceiling for the durations of the model.
MinutesOfFraction(n, d) ==
  IF n <= 0 THEN 1 ELSE (n + 60 * d - 1) \div (60 * d)

\* ConversionMinutesFromDuration on whole seconds
ConversionMinutesFromDuration(seconds) == MinutesOfFraction(seconds, 1)

\* Durations of SpecCalc, in tenths of a second, and the tier names it looks up
TenthsChoices == (0 - 20)..(10 * MaxSeconds)
\* The operation types buildFFmpegArgs' switch has a case for, and merge,
\* which Process hands to processMerge
KnownOpTypes ==
  {"trim", "resize", "compress", "convertFormat", "rotate", "crop",
   "extractAudio", "changeSpeed", "createGif", "changeBitrate", "adjustVolume",
   "fadeInOut", "addWatermark", "filters", "split", "thumbnail", "addAudio",
   "addText", "removeAudio", "reverse", "loop", "merge"}

\* buildFFmpegArgs: the operations that add arguments to the command line.
\* The switch has no default case: an operation of another type adds nothing.
buildFFmpegArgs(operations) ==
  SelectSeq(operations, LAMBDA t : t \in KnownOpTypes)

\* Paths. A path is the sequence of its elements (the parts between the
\* separators). An element is a name, or the id of a job followed by "." and
\* a name.
PathElem(name) == [job |-> NullID, name |-> name]
JobElem(jobID, name) == [job |-> jobID, name |-> name]

\* filepath.Clean on the elements, left to right: an empty element and "."
\* are dropped, ".." drops the element before it
RECURSIVE CleanOnto(_, _)
CleanOnto(done, rest) ==
  IF rest = <<>> THEN done
  ELSE LET e == Head(rest)
       IN IF e.job = NullID /\ e.name \in {"", "."}
          THEN CleanOnto(done, Tail(rest))
          ELSE IF e.job = NullID /\ e.name = ".." /\ done # <<>>
          THEN CleanOnto(SubSeq(done, 1, Len(done) - 1), Tail(rest))
          ELSE CleanOnto(Append(done, e), Tail(rest))

\* storage.Service.GetPath: filepath.Join(zone, filename), under a base path
\* that is the same for every file
GetPath(zone, filename) == CleanOnto(<<>>, <<PathElem(zone)>> \o filename)

\* fmt.Sprintf("%s.%s", jobID, params.OutputFormat), in elements: the
\* outputFormat of the request is given in elements too
OutputFileName(jobID, outputFormat) ==
  <<JobElem(jobID, outputFormat[1])>>
    \o [i \in 1..(Len(outputFormat) - 1) |-> PathElem(outputFormat[i + 1])]

\* The path storage.Service.Store gives an uploaded file: its id in the zone
UploadPath(fileID) == GetPath("upload", <<PathElem(fileID)>>)

DefaultFormat == <<"mp4">>                   \* outputFormat "mp4"
FormatChoices ==                             \* "mp4", "webm" and "/../a.mp4"
  {<<"mp4">>, <<"webm">>, <<"", "..", "a.mp4">>}

DefaultOperations == <<"convertFormat">>     \* operations of a plain request
MergeOperations == <<"merge">>               \* operations of a merge request
OperationsChoices ==                         \* operations of the requests of SpecOps
  {<<"convertFormat">>, <<"sharpen">>, <<"trim", "sharpen">>}

TierNameChoices == Tiers \cup {"", "enterprise", "FREE", "premium"}

nullString(s) == IF s = "" \/ s = "anonymous" THEN NULL ELSE s

(***************************************************************************)
(* State.                                                                  *)
(***************************************************************************)
VARIABLES
  clock,          \* the wall clock read by time.Now() and NOW(), in hours
  jobs,           \* table jobs: job id -> row (status NoRowStatus: no row)
  nextJob,        \* number of job ids handed out so far
  files,          \* table files, rows made by upload: the set of their ids
  outputFiles,    \* per job: the output file, its blob (stored) and its row in
                  \* table files made by the task handler (id = job id)
  profiles,       \* table user_profiles: user id -> row
  tasks,          \* the asynq task of each job: queue, state, the input files of its
                  \* payload, retried, handler position
  cancelCalls,    \* CancelJob calls between their SELECT and their UPDATE
  mapAccess,      \* accesses to Module.jobs of the API server that have begun and not
                  \* ended: the call and the id of its job
  handlerHub,     \* whether the Module handed to the task handler has a wsHub
                  \* (NewModule takes one; cmd/worker passes nil)
  hubClients,     \* Hub.clients
  subscriptions,  \* Client.subscriptions of each client
  send,           \* Client.send of each client: the buffered messages
  connected,      \* clients whose connection was accepted and is still open
  pumps,          \* per client: its readPump (read) and its send channel (ch)
  lastWritten,    \* per client and job: percent of the last job:progress frame written to the connection
  published,      \* per job: terminal frames handed to SendToJob, by type (counted up to MaxCount)
  pubTick,        \* per job: flips at every SendToJob call for the job
  charged,        \* per user: minutes added to conversion_minutes_used since its last reset
  chargedJobs,    \* per user: the jobs (id and minutes) whose row was set to completed since that reset
  admitted,       \* per user: minutes of the submissions accepted since that reset
  firstDone,      \* per job: the row as the first CompleteJob UPDATE that took effect left it
  lastResult      \* the CreateJob or CheckLimit call made in the last step and its outcome

dbVars == <<jobs, nextJob, files, outputFiles, profiles>>
hubVars == <<hubClients, subscriptions, send, connected, lastWritten, pumps>>
pubVars == <<send, published, pubTick>>
ghostVars == <<charged, chargedJobs, admitted, firstDone>>
vars == <<clock, jobs, nextJob, files, outputFiles, profiles, tasks, cancelCalls, mapAccess,
          handlerHub, hubClients, subscriptions, send, connected, lastWritten, pumps,
          published, pubTick, charged, chargedJobs, admitted, firstDone, lastResult>>

NoError == [code |-> NULL, retryable |-> FALSE]

NoRow ==
  [status |-> NoRowStatus, user_id |-> NULL, input_file_id |-> NULL,
   output_file_id |-> NullID, percent |-> 0, error |-> NoError,
   operations |-> <<>>, output_format |-> <<>>, conversion_minutes |-> 0,
   created_at |-> NullTime, started_at |-> NullTime, completed_at |-> NullTime]

NoProfile == [exists |-> FALSE, tier |-> "free", conversion_minutes_used |-> 0,
              usage_period_start |-> NullTime]

NoTask == [state |-> "none", queue |-> NULL, tier |-> NULL, inputs |-> <<>>,
           operations |-> <<>>, output_path |-> <<>>, retried |-> 0,
           redelivered |-> 0, pc |-> "idle"]

NoCall == [op |-> "none"]

\* No Client: no readPump and no send channel
NoClient == [read |-> "none", ch |-> "none"]
\* The Client HandleConnection makes: its readPump runs, its channel is open
NewClient == [read |-> "running", ch |-> "open"]

\* No row in files and no blob for the output of a job
NoFile == [exists |-> FALSE, stored |-> FALSE, user_id |-> NULL, zone |-> NULL,
           storage_path |-> <<>>, expires_at |-> NullTime, created_at |-> NullTime]

\* The row of a file the upload handler stored at time 0
UploadRow == [zone |-> "upload", expires_at |-> UploadExpiry, created_at |-> 0]

\* ScheduleCleanup's payload: CleanupPayload{Zone: "all"}, OlderThan left at 0
ScheduledCleanup == [Zone |-> "all", OlderThan |-> 0]

TerminalFrames == {"job:completed", "job:failed"}

\* The state after construction, the record of the last call aside
InitState ==
  /\ clock = 0
  /\ jobs = [j \in JobIDs |-> NoRow]
  /\ nextJob = 0
  /\ files = InputFileIDs
  /\ outputFiles = [j \in JobIDs |-> NoFile]
  /\ profiles = [u \in UserIDs |-> NoProfile]
  /\ tasks = [j \in JobIDs |-> NoTask]
  /\ cancelCalls = {}
  /\ mapAccess = {}
  /\ handlerHub \in BOOLEAN
  /\ hubClients = {}
  /\ subscriptions = [c \in Clients |-> {}]
  /\ send = [c \in Clients |-> <<>>]
  /\ connected = {}
  /\ lastWritten = [c \in Clients |-> [j \in JobIDs |-> NullTime]]
  /\ pumps = [c \in Clients |-> NoClient]
  /\ published = [j \in JobIDs |-> [t \in TerminalFrames |-> 0]]
  /\ pubTick = [j \in JobIDs |-> 0]
  /\ charged = [u \in UserIDs |-> 0]
  /\ chargedJobs = [u \in UserIDs |-> {}]
  /\ admitted = [u \in UserIDs |-> 0]
  /\ firstDone = [j \in JobIDs |-> NoRow]

Init == InitState /\ lastResult = NoCall

(***************************************************************************)
(* websocket.Hub                                                           *)
(***************************************************************************)
ProgressMsg(jobID, percent) ==
  [type |-> "job:progress", jobId |-> jobID, percent |-> percent]
CompletedMsg(jobID) ==
  [type |-> "job:completed", jobId |-> jobID, percent |-> 0]
FailedMsg(jobID) ==
  [type |-> "job:failed", jobId |-> jobID, percent |-> 0]
\* The answer to a ping: Message{Type: "pong"}
PongMsg == [type |-> "pong", jobId |-> NullID, percent |-> 0]

\* A SendToJob that gives up at the first subscribed client whose channel is full
SendToJobStopsAtFull(jobID, msg) ==
  IF \E c \in hubClients : jobID \in subscriptions[c] /\ Len(send[c]) >= SendBuf
  THEN send
  ELSE [c \in Clients |->
          IF c \in hubClients /\ jobID \in subscriptions[c]
          THEN Append(send[c], msg)
          ELSE send[c]]

\* A SendToJob to every client of the hub, subscribed to the job or not
SendToJobEveryClient(jobID, msg) ==
  [c \in Clients |->
     IF c \in hubClients /\ Len(send[c]) < SendBuf
     THEN Append(send[c], msg)
     ELSE send[c]]

\* A SendToJob that goes by the subscriptions alone, whether the client is
\* in h.clients or not
SendToJobAnySubscriber(jobID, msg) ==
  [c \in Clients |->
     IF jobID \in subscriptions[c] /\ Len(send[c]) < SendBuf
     THEN Append(send[c], msg)
     ELSE send[c]]

\* Hub.SendToJob: the clients' send channels after the loop over h.clients.
\* A subscribed client gets the message when its channel has room; when it
\* has none the select's default branch skips the client.
SendToJob(jobID, msg) ==
  [c \in Clients |->
     IF c \in hubClients /\ jobID \in subscriptions[c] /\ Len(send[c]) < SendBuf
     THEN Append(send[c], msg)
     ELSE send[c]]

\* "if m.wsHub != nil { m.wsHub.BroadcastJob...(...) }" of the Module methods
Broadcast(wsHub, jobID, msg) ==
  IF wsHub
  THEN /\ send' = SendToJob(jobID, msg)
       /\ pubTick' = [pubTick EXCEPT ![jobID] = 1 - @]
       /\ published' = IF msg.type \in TerminalFrames /\ published[jobID][msg.type] < MaxCount
                       THEN [published EXCEPT ![jobID][msg.type] = @ + 1]
                       ELSE published
  ELSE UNCHANGED pubVars

\* The Module of the API server is built with the hub.
ApiWsHub == TRUE

\* A new connection: a Client with an empty send channel and no
\* subscriptions, registered with the hub.
HandleConnection(c) ==
  /\ c \notin connected /\ c \notin hubClients
  /\ connected' = connected \cup {c}
  /\ hubClients' = hubClients \cup {c}
  /\ send' = [send EXCEPT ![c] = <<>>]
  /\ subscriptions' = [subscriptions EXCEPT ![c] = {}]
  /\ lastWritten' = [lastWritten EXCEPT ![c] = [j \in JobIDs |-> NullTime]]
  /\ pumps' = [pumps EXCEPT ![c] = NewClient]
  /\ lastResult' = NoCall
  /\ UNCHANGED <<clock, dbVars, tasks, cancelCalls, mapAccess, handlerHub, published,
                 pubTick, ghostVars>>

\* Client.handleMessage, "subscribe" and "unsubscribe"
Subscribe(c, jobID) ==
  /\ c \in connected
  /\ jobID \notin subscriptions[c]
  /\ subscriptions' = [subscriptions EXCEPT ![c] = @ \cup {jobID}]
  /\ lastResult' = NoCall
  /\ UNCHANGED <<clock, dbVars, tasks, cancelCalls, mapAccess, handlerHub, hubClients, send,
                 connected, lastWritten, pumps, published, pubTick, ghostVars>>

Unsubscribe(c, jobID) ==
  /\ c \in connected
  /\ jobID \in subscriptions[c]
  /\ subscriptions' = [subscriptions EXCEPT ![c] = @ \ {jobID}]
  /\ lastResult' = NoCall
  /\ UNCHANGED <<clock, dbVars, tasks, cancelCalls, mapAccess, handlerHub, hubClients, send,
                 connected, lastWritten, pumps, published, pubTick, ghostVars>>

\* Client.writePump: one message taken from send and written to the connection
WritePump(c) ==
  /\ c \in connected
  /\ send[c] # <<>>
  /\ LET msg == Head(send[c])
     IN lastWritten' = IF msg.type = "job:progress"
                       THEN [lastWritten EXCEPT ![c][msg.jobId] = msg.percent]
                       ELSE lastWritten
  /\ send' = [send EXCEPT ![c] = Tail(@)]
  /\ lastResult' = NoCall
  /\ UNCHANGED <<clock, dbVars, tasks, cancelCalls, mapAccess, handlerHub, hubClients,
                 subscriptions, connected, pumps, published, pubTick, ghostVars>>

\* Client.writePump takes a message and its WriteMessage fails: the pump
\* returns and closes the connection. The client stays in Hub.clients, with
\* nobody reading its send channel, until its readPump ends.
WritePumpFails(c) ==
  /\ c \in connected
  /\ send[c] # <<>>
  /\ send' = [send EXCEPT ![c] = Tail(@)]
  /\ connected' = connected \ {c}
  /\ lastResult' = NoCall
  /\ UNCHANGED <<clock, dbVars, tasks, cancelCalls, mapAccess, handlerHub, hubClients,
                 subscriptions, lastWritten, pumps, published, pubTick, ghostVars>>

\* Client.readPump ends (the peer closed the connection, or the connection
\* was closed by writePump): the hub's Run loop removes the client and closes
\* its send channel, the connection closes.
Disconnect(c) ==
  /\ c \in hubClients
  /\ connected' = connected \ {c}
  /\ hubClients' = hubClients \ {c}
  /\ send' = [send EXCEPT ![c] = <<>>]
  /\ subscriptions' = [subscriptions EXCEPT ![c] = {}]
  /\ pumps' = [pumps EXCEPT ![c] = NoClient]
  /\ lastResult' = NoCall
  /\ UNCHANGED <<clock, dbVars, tasks, cancelCalls, mapAccess, handlerHub, lastWritten,
                 published, pubTick, ghostVars>>

\* close(ch): closing a channel that is not open panics
CloseChan(ch) == IF ch = "open" THEN "closed" ELSE "fault"

\* Client.readPump reads a "ping" and handleMessage answers: c.send <- response,
\* which waits while the channel is full
Ping(c) ==
  /\ pumps[c].read = "running"
  /\ Len(send[c]) < SendBuf
  /\ send' = [send EXCEPT ![c] = Append(@, PongMsg)]
  /\ lastResult' = NoCall
  /\ UNCHANGED <<clock, dbVars, tasks, cancelCalls, mapAccess, handlerHub, hubClients,
                 subscriptions, connected, lastWritten, pumps, published, pubTick,
                 ghostVars>>

\* Client.readPump: ReadMessage returns an error and the loop ends; the
\* deferred function is about to hand the client to h.unregister
ReadPumpEnds(c) ==
  /\ pumps[c].read = "running"
  /\ pumps' = [pumps EXCEPT ![c].read = "ended"]
  /\ lastResult' = NoCall
  /\ UNCHANGED <<clock, dbVars, tasks, cancelCalls, mapAccess, handlerHub, hubClients,
                 subscriptions, send, connected, lastWritten, published, pubTick,
                 ghostVars>>

\* Hub.Run takes the client from h.unregister: under h.mu, when the client is
\* in h.clients it is deleted and its send channel is closed. Then readPump's
\* deferred function closes the connection. The Client keeps its
\* subscriptions and what is in its channel.
HubUnregister(c) ==
  /\ pumps[c].read = "ended"
  /\ IF c \in hubClients
     THEN /\ hubClients' = hubClients \ {c}
          /\ pumps' = [pumps EXCEPT ![c] = [read |-> "done", ch |-> CloseChan(@.ch)]]
     ELSE /\ pumps' = [pumps EXCEPT ![c].read = "done"]
          /\ UNCHANGED hubClients
  /\ connected' = connected \ {c}
  /\ lastResult' = NoCall
  /\ UNCHANGED <<clock, dbVars, tasks, cancelCalls, mapAccess, handlerHub, subscriptions,
                 send, lastWritten, published, pubTick, ghostVars>>

(***************************************************************************)
(* subscription.Service                                                    *)
(***************************************************************************)
\* GetOrCreateUserProfile: user_profiles after the call
GetOrCreateUserProfile(userID) ==
  IF profiles[userID].exists
  THEN profiles
  ELSE [profiles EXCEPT ![userID] =
          [exists |-> TRUE, tier |-> "free", conversion_minutes_used |-> 0,
           usage_period_start |-> clock]]

\* A limit check that also rejects a value that reaches the limit exactly
CheckLimitErrorAtLimit(sub, limitType, value) ==
  LET limits == GetTierLimits(sub.tier)
  IN CASE limitType = "file_size" -> value >= limits.MaxFileSizeBytes
       [] limitType = "conversion_minutes" ->
            value >= limits.ConversionMinutes - sub.conversion_minutes_used
       [] OTHER -> TRUE

\* CheckLimit's switch on limitType: TRUE when it returns an error. Its sum
\* used + value is an int of 64 bits; it is compared here as
\* value > limit - used, which no value of the INT column overflows.
CheckLimitError(sub, limitType, value) ==
  LET limits == GetTierLimits(sub.tier)
  IN CASE limitType = "file_size" -> value > limits.MaxFileSizeBytes
       [] limitType = "conversion_minutes" ->
            value > limits.ConversionMinutes - sub.conversion_minutes_used
       [] OTHER -> TRUE

\* GetTier: "free" when the profile is not found
GetTier(profs, userID) ==
  IF profs[userID].exists THEN profs[userID].tier ELSE "free"

\* An UPDATE that adds whatever minutes it is given
RecordConversionMinutesUnguarded(userID, minutes) ==
  IF ~profiles[userID].exists
       \/ (minutes > 0 /\ profiles[userID].conversion_minutes_used > MaxInt4 - minutes)
  THEN profiles
  ELSE [profiles EXCEPT ![userID].conversion_minutes_used = @ + minutes]

\* RecordConversionMinutes: user_profiles after the UPDATE. A sum that does
\* not fit the INT column makes the UPDATE fail (integer out of range).
RecordConversionMinutes(userID, minutes) ==
  IF minutes <= 0 \/ ~profiles[userID].exists
       \/ profiles[userID].conversion_minutes_used > MaxInt4 - minutes
  THEN profiles
  ELSE [profiles EXCEPT ![userID].conversion_minutes_used = @ + minutes]

\* A direct call of Service.RecordConversionMinutes
CallRecordConversionMinutes(userID, minutes) ==
  /\ profiles' = RecordConversionMinutes(userID, minutes)
  /\ lastResult' = [op |-> "RecordConversionMinutes", user |-> userID,
                    minutes |-> minutes]
  /\ UNCHANGED <<clock, jobs, nextJob, files, outputFiles, tasks, cancelCalls, mapAccess,
                 handlerHub, hubVars, published, pubTick, ghostVars>>

\* SetFreeTier: the upsert that puts the user on the free tier; a new row
\* starts its period at the start of the month (hour 0)
SetFreeTier(userID) ==
  /\ profiles' = [profiles EXCEPT ![userID] =
        IF @.exists
        THEN [@ EXCEPT !.tier = "free"]
        ELSE [exists |-> TRUE, tier |-> "free", conversion_minutes_used |-> 0,
              usage_period_start |-> 0]]
  /\ lastResult' = NoCall
  /\ UNCHANGED <<clock, jobs, nextJob, files, outputFiles, tasks, cancelCalls, mapAccess,
                 handlerHub, hubVars, published, pubTick, ghostVars>>

\* limitType and value of the direct calls
LimitChoices == {<<"conversion_minutes", 1>>, <<"conversion_minutes", 50>>,
                 <<"file_size", 501>>, <<"bandwidth", 1>>}

\* A direct call of Service.CheckLimit (the upload handlers call it with file_size)
CheckLimit(userID, limitType, value) ==
  /\ profiles' = GetOrCreateUserProfile(userID)
  /\ lastResult' = [op |-> "CheckLimit", user |-> userID, limitType |-> limitType,
                    value |-> value,
                    ok |-> ~CheckLimitError(profiles'[userID], limitType, value)]
  /\ UNCHANGED <<clock, jobs, nextJob, files, outputFiles, tasks, cancelCalls, mapAccess,
                 handlerHub, hubVars, published, pubTick, ghostVars>>

\* The call of ConversionMinutesFromDuration(tenths / 10) that is to be made
CallConversionMinutes ==
  /\ lastResult.op = "args" /\ lastResult.fn = "ConversionMinutesFromDuration"
  /\ lastResult' = [op |-> "ConversionMinutesFromDuration",
                    tenths |-> lastResult.tenths,
                    result |-> MinutesOfFraction(lastResult.tenths, 10)]
  /\ UNCHANGED <<clock, dbVars, tasks, cancelCalls, mapAccess, handlerHub, hubVars, published,
                 pubTick, ghostVars>>

\* The call of GetTierLimits(tier) that is to be made
CallGetTierLimits ==
  /\ lastResult.op = "args" /\ lastResult.fn = "GetTierLimits"
  /\ lastResult' = [op |-> "GetTierLimits", tier |-> lastResult.tier,
                    result |-> GetTierLimits(lastResult.tier)]
  /\ UNCHANGED <<clock, dbVars, tasks, cancelCalls, mapAccess, handlerHub, hubVars, published,
                 pubTick, ghostVars>>

\* A reset that moves the period start and keeps the minutes used
ResetUsageKeepsMinutes(userID) ==
  /\ profiles[userID].exists
  /\ profiles' = [profiles EXCEPT ![userID].usage_period_start = clock]
  /\ charged' = [charged EXCEPT ![userID] = 0]
  /\ chargedJobs' = [chargedJobs EXCEPT ![userID] = {}]
  /\ admitted' = [admitted EXCEPT ![userID] = 0]
  /\ lastResult' = [op |-> "ResetUsageForNewPeriod", user |-> userID]
  /\ UNCHANGED <<clock, jobs, nextJob, files, outputFiles, tasks, cancelCalls, mapAccess,
                 handlerHub, hubVars, published, pubTick, firstDone>>

\* ResetUsageForNewPeriod(userID, periodStart = now)
ResetUsageForNewPeriod(userID) ==
  /\ profiles[userID].exists
  /\ profiles' = [profiles EXCEPT ![userID].conversion_minutes_used = 0,
                                  ![userID].usage_period_start = clock]
  /\ charged' = [charged EXCEPT ![userID] = 0]
  /\ chargedJobs' = [chargedJobs EXCEPT ![userID] = {}]
  /\ admitted' = [admitted EXCEPT ![userID] = 0]
  /\ lastResult' = [op |-> "ResetUsageForNewPeriod", user |-> userID]
  /\ UNCHANGED <<clock, jobs, nextJob, files, outputFiles, tasks, cancelCalls, mapAccess,
                 handlerHub, hubVars, published, pubTick, firstDone>>

\* UpdateUserTier(userID, tier, _, periodStart, _): the upsert. periodStart
\* is now when hasPeriod, and nil otherwise.
UpdateUserTier(userID, tier, hasPeriod) ==
  LET old == profiles[userID]
      resets == old.exists /\ hasPeriod
                /\ (old.usage_period_start = NullTime \/ old.usage_period_start < clock)
  IN /\ profiles' = [profiles EXCEPT ![userID] =
          IF old.exists
          THEN [exists |-> TRUE, tier |-> tier,
                conversion_minutes_used |-> IF resets THEN 0 ELSE old.conversion_minutes_used,
                usage_period_start |-> IF hasPeriod THEN clock ELSE old.usage_period_start]
          ELSE [exists |-> TRUE, tier |-> tier, conversion_minutes_used |-> 0,
                usage_period_start |-> clock]]
     /\ charged' = IF resets THEN [charged EXCEPT ![userID] = 0] ELSE charged
     /\ chargedJobs' = IF resets THEN [chargedJobs EXCEPT ![userID] = {}] ELSE chargedJobs
     /\ admitted' = IF resets THEN [admitted EXCEPT ![userID] = 0] ELSE admitted
     /\ lastResult' = NoCall
     /\ UNCHANGED <<clock, jobs, nextJob, files, outputFiles, tasks, cancelCalls, mapAccess,
                    handlerHub, hubVars, published, pubTick, firstDone>>

(***************************************************************************)
(* jobs.QueueClient and the asynq runtime                                  *)
(***************************************************************************)
\* EnqueueMediaProcess: the queue its switch on priority selects
EnqueueMediaProcess(priority) ==
  CASE priority = "high" -> "critical"
    [] priority = "low" -> "low"
    [] OTHER -> "default"

\* CreateJob's switch on limits.Priority: the priority it hands to the queue client
QueuePriority(tier) ==
  LET limits == GetTierLimits(tier)
  IN CASE limits.Priority = "critical" -> "critical"
       [] limits.Priority = "high" -> "high"
       [] OTHER -> "default"

Active == {j \in JobIDs : tasks[j].state = "active"}

\* The handler returned an error: asynq retries the task until MaxRetry
TaskAfterError(t) ==
  IF t.retried < MaxRetry
  THEN [t EXCEPT !.state = "pending", !.retried = @ + 1, !.pc = "idle"]
  ELSE [t EXCEPT !.state = "archived", !.pc = "idle"]

(***************************************************************************)
(* jobs.Module: the UPDATE statements on one row                           *)
(***************************************************************************)
\* UPDATE jobs SET progress, status = 'processing', started_at = COALESCE(started_at, NOW())
UpdateProgressRow(row, percent) ==
  [row EXCEPT !.percent = percent, !.status = StatusProcessing,
              !.started_at = IF @ = NullTime THEN clock ELSE @]

\* UPDATE jobs SET status = 'completed', output_file_id, progress, completed_at
CompleteJobRow(row, outputFileID) ==
  [row EXCEPT !.status = StatusCompleted, !.output_file_id = outputFileID,
              !.percent = 100, !.completed_at = clock]

\* UPDATE jobs SET status = 'failed', error, completed_at
FailJobRow(row, retryable) ==
  [row EXCEPT !.status = StatusFailed,
              !.error = [code |-> "PROCESSING_ERROR", retryable |-> retryable],
              !.completed_at = clock]

\* UPDATE jobs SET status = 'cancelled', completed_at
CancelJobRow(row) ==
  [row EXCEPT !.status = StatusCancelled, !.completed_at = clock]

\* An UPDATE ... WHERE id = jobID changes the row when there is one
UpdateJobs(jobID, newRow) ==
  IF jobs[jobID].status = NoRowStatus THEN jobs ELSE [jobs EXCEPT ![jobID] = newRow]

\* CancelJob's check of the row it read: TRUE when it refuses
CancelJobRefuses(row) ==
  row.status = StatusCompleted \/ row.status = StatusCancelled

\* A CreateJob that inserts without resolving the input file
CreateJobInsertsUnresolved(limitErr, fileErr) == ~limitErr

\* Whether CreateJob reaches its INSERT INTO jobs
CreateJobInserts(limitErr, fileErr) == ~limitErr /\ ~fileErr

(***************************************************************************)
(* jobs.Module: the calls of the API server                                *)
(***************************************************************************)
\* Module.CreateJob(params), called by op (CreateJob or RetryJob, then for the
\* job old). inputFileIDs is params.InputFileIDs; more than one id makes it a
\* merge, whose payload carries the paths of all of them.
ModuleCreateJob(userID, inputFileID, inputFileIDs, operations, outputFormat, minutes, enqueueOk, op, old) ==
  LET convMin == IF minutes <= 0 THEN 1 ELSE minutes
      checked == userID # ""
      profs == IF checked THEN GetOrCreateUserProfile(userID) ELSE profiles
      limitErr == checked /\ CheckLimitError(profs[userID], "conversion_minutes", convMin)
      isMerge == Len(inputFileIDs) > 1
      fileErr == IF isMerge
                 THEN \E i \in 1..Len(inputFileIDs) : inputFileIDs[i] \notin files
                 ELSE inputFileID \notin files
      tier == IF checked THEN GetTier(profs, userID) ELSE "free"
      queuePriority == IF checked THEN QueuePriority(tier) ELSE "default"
      jobID == nextJob + 1
      outputPath == GetPath("output", OutputFileName(jobID, outputFormat))
      row == [status |-> StatusQueued, user_id |-> nullString(userID),
              input_file_id |-> inputFileID, output_file_id |-> NullID,
              percent |-> 0, error |-> NoError, operations |-> operations,
              output_format |-> outputFormat, conversion_minutes |-> convMin,
              created_at |-> clock, started_at |-> NullTime,
              completed_at |-> NullTime]
  IN /\ profiles' = profs
     /\ IF CreateJobInserts(limitErr, fileErr)
        THEN /\ nextJob < MaxJobs
             /\ nextJob' = jobID
             /\ IF enqueueOk
                THEN /\ jobs' = [jobs EXCEPT ![jobID] = row]
                     /\ tasks' = [tasks EXCEPT ![jobID] =
                          [state |-> "pending",
                           queue |-> EnqueueMediaProcess(queuePriority),
                           tier |-> tier,
                           inputs |-> IF isMerge THEN inputFileIDs
                                                 ELSE <<inputFileID>>,
                           operations |-> operations,
                           output_path |-> outputPath,
                           retried |-> 0, redelivered |-> 0, pc |-> "idle"]]
                ELSE /\ jobs' = [jobs EXCEPT ![jobID] = [row EXCEPT !.status = StatusFailed]]
                     /\ UNCHANGED tasks
             /\ admitted' = IF enqueueOk /\ userID \in UserIDs
                             THEN [admitted EXCEPT ![userID] = @ + convMin]
                             ELSE admitted
             /\ lastResult' = [op |-> op, old |-> old, user |-> userID,
                               file |-> inputFileID, minutes |-> convMin,
                               ok |-> enqueueOk,
                               reason |-> IF enqueueOk THEN "created" ELSE "enqueue"]
        ELSE /\ lastResult' = [op |-> op, old |-> old, user |-> userID,
                               file |-> inputFileID, minutes |-> convMin,
                               ok |-> FALSE,
                               reason |-> IF limitErr THEN "limit" ELSE "file"]
             /\ UNCHANGED <<jobs, nextJob, tasks, admitted>>
     /\ UNCHANGED <<clock, files, outputFiles, cancelCalls, mapAccess, handlerHub, hubVars,
                    published, pubTick, charged, chargedJobs, firstDone>>

\* JobHandler.CreateJob with the inputFileId of a single input file
CreateJob(userID, inputFileID, seconds, enqueueOk) ==
  ModuleCreateJob(userID, inputFileID, <<>>, DefaultOperations, DefaultFormat,
                  ConversionMinutesFromDuration(seconds), enqueueOk, "CreateJob", NullID)

\* JobHandler.CreateJob with the outputFormat of the request, which goes
\* into the row and the output path as it is
CreateJobWithFormat(userID, inputFileID, outputFormat, seconds, enqueueOk) ==
  ModuleCreateJob(userID, inputFileID, <<>>, DefaultOperations, outputFormat,
                  ConversionMinutesFromDuration(seconds), enqueueOk, "CreateJob", NullID)

\* JobHandler.CreateJob with the operations of the request; neither it nor
\* Module.CreateJob looks at their types
CreateJobWithOperations(userID, inputFileID, operations, seconds, enqueueOk) ==
  ModuleCreateJob(userID, inputFileID, <<>>, operations, DefaultFormat,
                  ConversionMinutesFromDuration(seconds), enqueueOk, "CreateJob", NullID)

\* JobHandler.CreateJob with inputFileIds and no inputFileId: the first id
\* becomes the InputFileID
CreateMergeJob(userID, inputFileIDs, seconds, enqueueOk) ==
  ModuleCreateJob(userID, inputFileIDs[1], inputFileIDs, MergeOperations, DefaultFormat,
                  ConversionMinutesFromDuration(seconds), enqueueOk, "CreateJob", NullID)

\* Module.RetryJob: GetJob, the check of the status, and CreateJob with the
\* UserID, InputFileID, Operations, OutputFormat and OutputFileName of the
\* row read (UserID is "" when user_id is NULL)
RetryJob(jobID, enqueueOk) ==
  /\ jobID <= nextJob
  /\ LET oldJob == jobs[jobID]
     IN IF oldJob.status # StatusFailed
        THEN /\ lastResult' = [op |-> "RetryJob", old |-> jobID, user |-> "",
                               file |-> NULL, minutes |-> 0, ok |-> FALSE,
                               reason |-> IF oldJob.status = NoRowStatus
                                          THEN "notfound" ELSE "status"]
             /\ UNCHANGED <<clock, dbVars, tasks, cancelCalls, mapAccess, handlerHub, hubVars,
                            published, pubTick, ghostVars>>
        ELSE ModuleCreateJob(IF oldJob.user_id = NULL THEN "" ELSE oldJob.user_id,
                             oldJob.input_file_id, <<>>, oldJob.operations,
                             oldJob.output_format, 0, enqueueOk,
                             "RetryJob", jobID)

\* CancelJob, first statement: GetJob and the status check
CancelJobRead(jobID) ==
  /\ jobID <= nextJob
  /\ jobID \notin cancelCalls
  /\ LET row == jobs[jobID]
     IN IF row.status = NoRowStatus \/ CancelJobRefuses(row)
        THEN UNCHANGED cancelCalls
        ELSE cancelCalls' = cancelCalls \cup {jobID}
  /\ lastResult' = NoCall
  /\ UNCHANGED <<clock, dbVars, tasks, mapAccess, handlerHub, hubVars, published, pubTick,
                 ghostVars>>

\* CancelJob, second statement: the UPDATE, then the broadcast of job:failed
CancelJobWrite(jobID) ==
  /\ jobID \in cancelCalls
  /\ cancelCalls' = cancelCalls \ {jobID}
  /\ jobs' = UpdateJobs(jobID, CancelJobRow(jobs[jobID]))
  /\ Broadcast(ApiWsHub, jobID, FailedMsg(jobID))
  /\ lastResult' = NoCall
  /\ UNCHANGED <<clock, nextJob, files, outputFiles, profiles, tasks, mapAccess, handlerHub,
                 hubClients, subscriptions, connected, lastWritten, pumps, ghostVars>>

\* JobHandler.CancelJob for a request of userID, the statements of
\* Module.CancelJob running with no other call in between. The handler takes
\* the job id from the URL and hands only that to the module: the user of
\* the request is not looked at.
CancelJob(userID, jobID) ==
  /\ jobID <= nextJob
  /\ jobID \notin cancelCalls
  /\ LET row == jobs[jobID]
         refused == row.status = NoRowStatus \/ CancelJobRefuses(row)
     IN /\ IF refused
           THEN UNCHANGED <<jobs, pubVars>>
           ELSE /\ jobs' = UpdateJobs(jobID, CancelJobRow(row))
                /\ Broadcast(ApiWsHub, jobID, FailedMsg(jobID))
        /\ lastResult' = [op |-> "CancelJob", user |-> userID, job |-> jobID,
                          ok |-> ~refused]
  /\ UNCHANGED <<clock, nextJob, files, outputFiles, profiles, tasks, cancelCalls, mapAccess,
                 handlerHub, hubClients, subscriptions, connected, lastWritten, pumps,
                 ghostVars>>

\* The WHERE clause of ListJobs' SELECT
ListJobsWhere(row, userID, status) ==
  /\ userID = "" \/ userID = "anonymous" \/ row.user_id = userID \/ row.user_id = NULL
  /\ status = "" \/ row.status = status

\* The rows ListJobs' WHERE clause selects
ListJobsRows(userID, status) ==
  {j \in JobIDs : jobs[j].status # NoRowStatus /\ ListJobsWhere(jobs[j], userID, status)}

\* The lists ListJobs can return: ORDER BY created_at DESC LIMIT 50 of the
\* selected rows, rows with the same created_at in either order
ListJobsResults(userID, status) ==
  LET rows == ListJobsRows(userID, status)
      n == IF Cardinality(rows) < ListLimit THEN Cardinality(rows) ELSE ListLimit
  IN {l \in [1..n -> rows] :
        /\ \A i, k \in 1..n : i < k => /\ l[i] # l[k]
                                        /\ jobs[l[i]].created_at >= jobs[l[k]].created_at
        /\ \A j \in rows : (\A i \in 1..n : l[i] # j)
              => \A i \in 1..n : jobs[l[i]].created_at >= jobs[j].created_at}

\* JobHandler.ListJobs and Module.ListJobs
ListJobs(userID, status) ==
  /\ \E l \in ListJobsResults(userID, status) :
        lastResult' = [op |-> "ListJobs", user |-> userID, status |-> status,
                       result |-> l]
  /\ UNCHANGED <<clock, dbVars, tasks, cancelCalls, mapAccess, handlerHub, hubVars, published,
                 pubTick, ghostVars>>

\* A DeleteJob that also removes the row and the blob of the job's output file
DeleteJobWithOutput(jobID) ==
  /\ jobID <= nextJob
  /\ IF jobs[jobID].status = NoRowStatus
     THEN UNCHANGED <<jobs, outputFiles>>
     ELSE /\ jobs' = [jobs EXCEPT ![jobID] = NoRow]
          /\ outputFiles' = [outputFiles EXCEPT ![jobID] = NoFile]
  /\ lastResult' = [op |-> "DeleteJob", job |-> jobID,
                    ok |-> jobs[jobID].status # NoRowStatus]
  /\ UNCHANGED <<clock, nextJob, files, profiles, tasks, cancelCalls, mapAccess,
                 handlerHub, hubVars, published, pubTick, ghostVars>>

\* DeleteJob: DELETE FROM jobs WHERE id = jobID; "job not found" when no row
\* was affected
DeleteJob(jobID) ==
  /\ jobID <= nextJob
  /\ IF jobs[jobID].status = NoRowStatus
     THEN UNCHANGED jobs
     ELSE jobs' = [jobs EXCEPT ![jobID] = NoRow]
  /\ lastResult' = [op |-> "DeleteJob", job |-> jobID,
                    ok |-> jobs[jobID].status # NoRowStatus]
  /\ UNCHANGED <<clock, nextJob, files, outputFiles, profiles, tasks, cancelCalls, mapAccess,
                 handlerHub, hubVars, published, pubTick, ghostVars>>

\* Module.jobs is a plain map and Module has no lock; each request of the API
\* server runs in a goroutine of its own. MapFault marks the server stopped by
\* the runtime (fatal error: concurrent map writes).
MapFault == [op |-> "fatal", job |-> NullID]

ApiRunning == MapFault \notin mapAccess

\* The values mapAccess can take when a call begins to write the map. With
\* another access under way the write is a data race: the runtime stops the
\* process or does not notice.
MapWriteBegins(op, jobID) ==
  LET begun == mapAccess \cup {[op |-> op, job |-> jobID]}
  IN IF mapAccess = {} THEN {begun} ELSE {begun, begun \cup {MapFault}}

\* A payload that is on its queue as soon as it is built
PayloadEnqueuedAtOnce(payload) == [payload EXCEPT !.state = "pending"]

\* The payload CreateJob builds is in its local variables, on no queue
PayloadBeforeEnqueue(payload) == [payload EXCEPT !.state = "building"]

\* Module.CreateJob with one input file, from its limit check to the
\* statement m.jobs[job.ID] = job: the checks, the INSERT, and the write of
\* the map begun
CreateJobInsert(userID, inputFileID, seconds) ==
  LET minutes == ConversionMinutesFromDuration(seconds)
      convMin == IF minutes <= 0 THEN 1 ELSE minutes
      checked == userID # ""
      profs == IF checked THEN GetOrCreateUserProfile(userID) ELSE profiles
      limitErr == checked /\ CheckLimitError(profs[userID], "conversion_minutes", convMin)
      fileErr == inputFileID \notin files
      tier == IF checked THEN GetTier(profs, userID) ELSE "free"
      queuePriority == IF checked THEN QueuePriority(tier) ELSE "default"
      jobID == nextJob + 1
      row == [status |-> StatusQueued, user_id |-> nullString(userID),
              input_file_id |-> inputFileID, output_file_id |-> NullID,
              percent |-> 0, error |-> NoError, operations |-> DefaultOperations,
              output_format |-> DefaultFormat, conversion_minutes |-> convMin,
              created_at |-> clock, started_at |-> NullTime,
              completed_at |-> NullTime]
      payload == [state |-> "pending", queue |-> EnqueueMediaProcess(queuePriority),
                  tier |-> tier, inputs |-> <<inputFileID>>,
                  operations |-> DefaultOperations,
                  output_path |-> GetPath("output", OutputFileName(jobID, DefaultFormat)),
                  retried |-> 0, redelivered |-> 0, pc |-> "idle"]
  IN /\ ApiRunning
     /\ profiles' = profs
     /\ IF CreateJobInserts(limitErr, fileErr)
        THEN /\ nextJob < MaxJobs
             /\ nextJob' = jobID
             /\ jobs' = [jobs EXCEPT ![jobID] = row]
             /\ tasks' = [tasks EXCEPT ![jobID] = PayloadBeforeEnqueue(payload)]
             /\ mapAccess' \in MapWriteBegins("CreateJob", jobID)
             /\ lastResult' = NoCall
        ELSE /\ lastResult' = [op |-> "CreateJob", old |-> NullID, user |-> userID,
                               file |-> inputFileID, minutes |-> convMin,
                               ok |-> FALSE,
                               reason |-> IF limitErr THEN "limit" ELSE "file"]
             /\ UNCHANGED <<jobs, nextJob, tasks, mapAccess>>
     /\ UNCHANGED <<clock, files, outputFiles, cancelCalls, handlerHub, hubVars,
                    published, pubTick, ghostVars>>

\* Module.CreateJob, the rest: the write of the map ends, the payload is
\* handed to EnqueueMediaProcess, and a failed enqueue sets the row to failed
CreateJobEnqueue(jobID, enqueueOk) ==
  /\ ApiRunning
  /\ tasks[jobID].state = "building"
  /\ mapAccess' = mapAccess \ {[op |-> "CreateJob", job |-> jobID]}
  /\ IF enqueueOk
     THEN /\ tasks' = [tasks EXCEPT ![jobID].state = "pending"]
          /\ UNCHANGED jobs
     ELSE /\ tasks' = [tasks EXCEPT ![jobID] = NoTask]
          /\ jobs' = UpdateJobs(jobID, [jobs[jobID] EXCEPT !.status = StatusFailed])
  /\ lastResult' = [op |-> "CreateJob", old |-> NullID, job |-> jobID, ok |-> enqueueOk,
                    reason |-> IF enqueueOk THEN "created" ELSE "enqueue"]
  /\ UNCHANGED <<clock, nextJob, files, outputFiles, profiles, cancelCalls, handlerHub,
                 hubVars, published, pubTick, ghostVars>>

\* Module.DeleteJob up to the statement delete(m.jobs, jobID): the DELETE,
\* "job not found" when no row was affected, else the write of the map begun
DeleteJobRow(jobID) ==
  /\ ApiRunning
  /\ jobID <= nextJob
  /\ [op |-> "DeleteJob", job |-> jobID] \notin mapAccess
  /\ IF jobs[jobID].status = NoRowStatus
     THEN /\ lastResult' = [op |-> "DeleteJob", job |-> jobID, ok |-> FALSE]
          /\ UNCHANGED <<jobs, mapAccess>>
     ELSE /\ jobs' = [jobs EXCEPT ![jobID] = NoRow]
          /\ mapAccess' \in MapWriteBegins("DeleteJob", jobID)
          /\ lastResult' = NoCall
  /\ UNCHANGED <<clock, nextJob, files, outputFiles, profiles, tasks, cancelCalls,
                 handlerHub, hubVars, published, pubTick, ghostVars>>

\* Module.DeleteJob, the rest: the write of the map ends and nil is returned
DeleteJobReturn(jobID) ==
  /\ ApiRunning
  /\ [op |-> "DeleteJob", job |-> jobID] \in mapAccess
  /\ mapAccess' = mapAccess \ {[op |-> "DeleteJob", job |-> jobID]}
  /\ lastResult' = [op |-> "DeleteJob", job |-> jobID, ok |-> TRUE]
  /\ UNCHANGED <<clock, dbVars, tasks, cancelCalls, handlerHub, hubVars, published,
                 pubTick, ghostVars>>

(***************************************************************************)
(* jobs.Handler.HandleMediaProcess, run by an asynq worker                 *)
(***************************************************************************)
\* Module.UpdateProgress: the UPDATE, then the broadcast of job:progress
UpdateProgress(wsHub, jobID, percent) ==
  /\ jobs' = UpdateJobs(jobID, UpdateProgressRow(jobs[jobID], percent))
  /\ Broadcast(wsHub, jobID, ProgressMsg(jobID, percent))

\* Module.FailJob: the UPDATE, then the broadcast of job:failed
FailJob(wsHub, jobID, retryable) ==
  /\ jobs' = UpdateJobs(jobID, FailJobRow(jobs[jobID], retryable))
  /\ Broadcast(wsHub, jobID, FailedMsg(jobID))

\* A worker takes a pending task off its queue
Dequeue(jobID) ==
  /\ tasks[jobID].state = "pending"
  /\ Cardinality(Active) < WorkerConcurrency
  /\ tasks' = [tasks EXCEPT ![jobID].state = "active", ![jobID].pc = "start"]
  /\ lastResult' = NoCall
  /\ UNCHANGED <<clock, dbVars, cancelCalls, mapAccess, handlerHub, hubVars, published,
                 pubTick, ghostVars>>

\* h.jobsModule.UpdateProgress(ctx, payload.JobID, 0, "Starting...", 0)
HandleStart(jobID) ==
  /\ tasks[jobID].state = "active" /\ tasks[jobID].pc = "start"
  /\ UpdateProgress(handlerHub, jobID, 0)
  /\ tasks' = [tasks EXCEPT ![jobID].pc = "mkdir"]
  /\ lastResult' = NoCall
  /\ UNCHANGED <<clock, nextJob, files, outputFiles, profiles, cancelCalls, mapAccess,
                 handlerHub, hubClients, subscriptions, connected, lastWritten, pumps,
                 ghostVars>>

\* os.MkdirAll(outputDir): on failure FailJob(retryable) and the error is returned
HandleMkdir(jobID, ok) ==
  /\ tasks[jobID].state = "active" /\ tasks[jobID].pc = "mkdir"
  /\ IF ok
     THEN /\ tasks' = [tasks EXCEPT ![jobID].pc = "process"]
          /\ UNCHANGED <<jobs, pubVars>>
     ELSE /\ FailJob(handlerHub, jobID, TRUE)
          /\ tasks' = [tasks EXCEPT ![jobID] = TaskAfterError(@)]
  /\ lastResult' = NoCall
  /\ UNCHANGED <<clock, nextJob, files, outputFiles, profiles, cancelCalls, mapAccess,
                 handlerHub, hubClients, subscriptions, connected, lastWritten, pumps,
                 ghostVars>>

\* The OnProgress callback given to the media processor
OnProgress(jobID, percent) ==
  /\ tasks[jobID].state = "active" /\ tasks[jobID].pc = "process"
  /\ UpdateProgress(handlerHub, jobID, percent)
  /\ lastResult' = NoCall
  /\ UNCHANGED <<clock, nextJob, files, outputFiles, profiles, tasks, cancelCalls, mapAccess,
                 handlerHub, hubClients, subscriptions, connected, lastWritten, pumps,
                 ghostVars>>

\* h.mediaProcessor.Process returns: on error FailJob(retryable) and the error is returned
HandleProcessed(jobID, ok) ==
  /\ tasks[jobID].state = "active" /\ tasks[jobID].pc = "process"
  /\ IF ok
     THEN /\ tasks' = [tasks EXCEPT ![jobID].pc = "stat"]
          /\ outputFiles' = [outputFiles EXCEPT ![jobID].stored = TRUE]
          /\ UNCHANGED <<jobs, pubVars>>
     ELSE /\ FailJob(handlerHub, jobID, TRUE)
          /\ tasks' = [tasks EXCEPT ![jobID] = TaskAfterError(@)]
          /\ UNCHANGED outputFiles
  /\ lastResult' = NoCall
  /\ UNCHANGED <<clock, nextJob, files, profiles, cancelCalls, mapAccess,
                 handlerHub, hubClients, subscriptions, connected, lastWritten, pumps,
                 ghostVars>>

\* The task's timeout (asynq.Timeout(2 * time.Hour)) passes while the media
\* tool runs: ctx is cancelled, exec.CommandContext kills the tool and
\* Process returns its error. FailJob runs its UPDATE with the same ctx, so
\* the UPDATE fails and FailJob returns before the cache and the broadcast;
\* the handler returns the error of Process.
HandleTimeout(jobID) ==
  /\ tasks[jobID].state = "active" /\ tasks[jobID].pc = "process"
  /\ tasks' = [tasks EXCEPT ![jobID] = TaskAfterError(@)]
  /\ lastResult' = NoCall
  /\ UNCHANGED <<clock, dbVars, cancelCalls, mapAccess, handlerHub, hubVars, published,
                 pubTick, ghostVars>>

\* os.Stat(payload.OutputPath): on failure FailJob(not retryable) and the error is returned
HandleStat(jobID, ok) ==
  /\ tasks[jobID].state = "active" /\ tasks[jobID].pc = "stat"
  /\ IF ok
     THEN /\ tasks' = [tasks EXCEPT ![jobID].pc = "insert"]
          /\ UNCHANGED <<jobs, pubVars>>
     ELSE /\ FailJob(handlerHub, jobID, FALSE)
          /\ tasks' = [tasks EXCEPT ![jobID] = TaskAfterError(@)]
  /\ lastResult' = NoCall
  /\ UNCHANGED <<clock, nextJob, files, outputFiles, profiles, cancelCalls, mapAccess,
                 handlerHub, hubClients, subscriptions, connected, lastWritten, pumps,
                 ghostVars>>

\* The row of INSERT INTO files (id, original_name, storage_path, mime_type,
\* size_bytes, zone, media_type, expires_at, created_at): no user_id column
OutputFileRow(old, outputPath) ==
  [exists |-> TRUE, stored |-> old.stored, user_id |-> NULL, zone |-> "output",
   storage_path |-> outputPath, expires_at |-> clock + OutputExpiry,
   created_at |-> clock]

\* INSERT INTO files (id = job id, ...): an error (the id exists, or the
\* statement does not get through: ok FALSE) is only logged
HandleInsertFile(jobID, ok) ==
  /\ tasks[jobID].state = "active" /\ tasks[jobID].pc = "insert"
  /\ outputFiles' = IF outputFiles[jobID].exists \/ ~ok
                    THEN outputFiles
                    ELSE [outputFiles EXCEPT ![jobID] =
                            OutputFileRow(@, tasks[jobID].output_path)]
  /\ tasks' = [tasks EXCEPT ![jobID].pc = "complete"]
  /\ lastResult' = NoCall
  /\ UNCHANGED <<clock, jobs, nextJob, files, profiles, cancelCalls, mapAccess, handlerHub,
                 hubVars, published, pubTick, ghostVars>>

\* CompleteJob's condition for recording usage, on the row its SELECT read
CompleteJobRecords(row) ==
  row.status # NoRowStatus /\ row.user_id # NULL /\ row.user_id # ""
    /\ row.user_id # "anonymous" /\ row.conversion_minutes > 0

\* CompleteJob, first part: SELECT user_id, conversion_minutes and RecordConversionMinutes
CompleteJobRecord(jobID) ==
  /\ tasks[jobID].state = "active" /\ tasks[jobID].pc = "complete"
  /\ LET row == jobs[jobID]
     IN IF CompleteJobRecords(row)
        THEN /\ profiles' = RecordConversionMinutes(row.user_id, row.conversion_minutes)
             /\ charged' = IF profiles[row.user_id].exists
                           THEN [charged EXCEPT ![row.user_id] = @ + row.conversion_minutes]
                           ELSE charged
        ELSE UNCHANGED <<profiles, charged>>
  /\ tasks' = [tasks EXCEPT ![jobID].pc = "update"]
  /\ lastResult' = NoCall
  /\ UNCHANGED <<clock, jobs, nextJob, files, outputFiles, cancelCalls, mapAccess, handlerHub,
                 hubVars, published, pubTick, chargedJobs, admitted, firstDone>>

\* jobs.output_file_id REFERENCES files(id): the UPDATE of CompleteJob sets it
\* to fileID and fails when the job row is there and no file row has that id
CompleteJobViolatesKey(jobID, fileID) ==
  jobs[jobID].status # NoRowStatus /\ ~outputFiles[fileID].exists

\* CompleteJob, second part: the UPDATE, then the broadcast of job:completed.
\* When the UPDATE fails CompleteJob returns the error, which the handler logs.
CompleteJobUpdate(jobID) ==
  /\ tasks[jobID].state = "active" /\ tasks[jobID].pc = "update"
  /\ IF CompleteJobViolatesKey(jobID, jobID)
     THEN UNCHANGED <<jobs, pubVars, chargedJobs, firstDone>>
     ELSE /\ jobs' = UpdateJobs(jobID, CompleteJobRow(jobs[jobID], jobID))
          /\ Broadcast(handlerHub, jobID, CompletedMsg(jobID))
          /\ chargedJobs' = LET row == jobs[jobID]
                            IN IF row.status # NoRowStatus /\ row.user_id # NULL
                               THEN [chargedJobs EXCEPT ![row.user_id] =
                                       @ \cup {[job |-> jobID, minutes |-> row.conversion_minutes]}]
                               ELSE chargedJobs
          /\ firstDone' = IF jobs[jobID].status # NoRowStatus /\ firstDone[jobID].status = NoRowStatus
                          THEN [firstDone EXCEPT ![jobID] = jobs'[jobID]]
                          ELSE firstDone
  /\ tasks' = [tasks EXCEPT ![jobID].pc = "return"]
  /\ lastResult' = NoCall
  /\ UNCHANGED <<clock, nextJob, files, outputFiles, profiles, cancelCalls, mapAccess,
                 handlerHub, hubClients, subscriptions, connected, lastWritten, pumps,
                 charged, admitted>>

\* The handler returns nil: asynq marks the task done
HandleReturn(jobID) ==
  /\ tasks[jobID].state = "active" /\ tasks[jobID].pc = "return"
  /\ tasks' = [tasks EXCEPT ![jobID].state = "completed", ![jobID].pc = "idle"]
  /\ lastResult' = NoCall
  /\ UNCHANGED <<clock, dbVars, cancelCalls, mapAccess, handlerHub, hubVars, published,
                 pubTick, ghostVars>>

\* At-least-once delivery: the worker running the task is lost, the lease
\* runs out and asynq hands the task to a worker again.
Redeliver(jobID) ==
  /\ tasks[jobID].state = "active"
  /\ tasks[jobID].redelivered < MaxRedeliver
  /\ tasks' = [tasks EXCEPT ![jobID].state = "pending", ![jobID].pc = "idle",
                            ![jobID].redelivered = @ + 1]
  /\ lastResult' = NoCall
  /\ UNCHANGED <<clock, dbVars, cancelCalls, mapAccess, handlerHub, hubVars, published,
                 pubTick, ghostVars>>

\* The WHERE clause of HandleCleanupFiles' SELECT
CleanupSelects(row, payload) ==
  row.zone = payload.Zone /\ row.created_at < payload.OlderThan

\* HandleCleanupFiles: the SELECT, then for each row storage.Delete and
\* DELETE FROM files (a DELETE that fails, the row being referenced by
\* jobs.input_file_id or jobs.output_file_id, is only logged). A zone that is
\* no file_zone selects no row.
HandleCleanupFiles(payload) ==
  /\ IF payload.Zone \notin FileZones
     THEN UNCHANGED <<files, outputFiles>>
     ELSE /\ files' = {f \in files :
                         \/ ~CleanupSelects(UploadRow, payload)
                         \/ \E j \in JobIDs : jobs[j].status # NoRowStatus
                                                /\ jobs[j].input_file_id = f}
          /\ outputFiles' = [j \in JobIDs |->
               IF outputFiles[j].exists /\ CleanupSelects(outputFiles[j], payload)
               THEN IF \E k \in JobIDs : jobs[k].status # NoRowStatus
                                          /\ jobs[k].output_file_id = j
                    THEN [outputFiles[j] EXCEPT !.stored = FALSE]
                    ELSE NoFile
               ELSE outputFiles[j]]
  /\ lastResult' = [op |-> "HandleCleanupFiles"]
  /\ UNCHANGED <<clock, jobs, nextJob, profiles, tasks, cancelCalls, mapAccess, handlerHub,
                 hubVars, published, pubTick, ghostVars>>

\* h hours pass
Elapse(h) ==
  /\ clock + h <= MaxHours
  /\ clock' = clock + h
  /\ lastResult' = NoCall
  /\ UNCHANGED <<dbVars, tasks, cancelCalls, mapAccess, handlerHub, hubVars, published,
                 pubTick, ghostVars>>

Tick ==
  /\ clock < MaxTime
  /\ clock' = clock + 1
  /\ lastResult' = NoCall
  /\ UNCHANGED <<dbVars, tasks, cancelCalls, mapAccess, handlerHub, hubVars, published,
                 pubTick, ghostVars>>

\* The steps of a worker whose filesystem and media tool do not fail
WorkerOk(jobID) ==
  \/ Dequeue(jobID)
  \/ HandleStart(jobID)
  \/ HandleMkdir(jobID, TRUE)
  \/ HandleProcessed(jobID, TRUE)
  \/ HandleStat(jobID, TRUE)
  \/ HandleInsertFile(jobID, TRUE)
  \/ CompleteJobRecord(jobID)
  \/ CompleteJobUpdate(jobID)
  \/ HandleReturn(jobID)

\* The steps of a worker on the task of a job
Worker(jobID) ==
  \/ Dequeue(jobID)
  \/ HandleStart(jobID)
  \/ \E ok \in BOOLEAN : HandleMkdir(jobID, ok)
  \/ \E ok \in BOOLEAN : HandleProcessed(jobID, ok)
  \/ \E ok \in BOOLEAN : HandleStat(jobID, ok)
  \/ \E ok \in BOOLEAN : HandleInsertFile(jobID, ok)
  \/ CompleteJobRecord(jobID)
  \/ CompleteJobUpdate(jobID)
  \/ HandleReturn(jobID)

(***************************************************************************)
(* Spec: the life of a job. One submission by either kind of user, the     *)
(* worker with retries and redelivery, cancel and delete calls of the API, *)
(* and the clock. No client is connected.                                  *)
(***************************************************************************)
Next ==
  \/ Tick
  \/ \E u \in UserIDs, f \in FileIDChoices, e \in BOOLEAN :
        nextJob < LifeJobs /\ CreateJob(u, f, 1500, e)
  \/ \E j \in JobIDs : CancelJobRead(j)
  \/ \E j \in JobIDs : CancelJobWrite(j)
  \/ \E j \in JobIDs : DeleteJob(j)
  \/ \E j \in JobIDs : Worker(j)
  \/ \E j \in JobIDs, p \in PercentChoices : OnProgress(j, p)
  \/ \E j \in JobIDs : Redeliver(j)

Spec == Init /\ [][Next]_vars

(***************************************************************************)
(* SpecAdmission: submissions against the usage limits. Submissions of a   *)
(* signed-in user, direct limit checks, tier changes, the usage reset, and *)
(* the deployed worker bringing the admitted jobs to their end.            *)
(***************************************************************************)
NextAdmission ==
  \/ \E f \in FileIDChoices, s \in DurationChoices : CreateJob("u1", f, s, TRUE)
  \/ \E l \in LimitChoices : CheckLimit("u1", l[1], l[2])
  \/ ResetUsageForNewPeriod("u1")
  \/ \E t \in TierChoices, p \in BOOLEAN : UpdateUserTier("u1", t, p)
  \/ \E j \in JobIDs : WorkerOk(j)

\* The worker as cmd/worker builds it: a Module without a hub
InitAdmission == Init /\ ~handlerHub

SpecAdmission == InitAdmission /\ [][NextAdmission]_vars

(***************************************************************************)
(* SpecHub: the progress bus. One submission, the worker with the progress *)
(* callback and retries, the cancel call, and clients that connect,        *)
(* subscribe, read and disconnect (and keep their subscriptions meanwhile).*)
(***************************************************************************)
NextHub ==
  \/ \E f \in FileIDChoices :
        nextJob < LifeJobs /\ CreateJob("anonymous", f, 0, TRUE)
  \/ \E j \in JobIDs : CancelJobRead(j)
  \/ \E j \in JobIDs : CancelJobWrite(j)
  \/ \E j \in JobIDs : Worker(j)
  \/ \E j \in JobIDs, p \in PercentChoices : OnProgress(j, p)
  \/ \E c \in Watchers : HandleConnection(c)
  \/ \E c \in Watchers, j \in JobIDs : Subscribe(c, j)
  \/ \E c \in Watchers : WritePump(c)
  \/ \E c \in Watchers : Disconnect(c)

SpecHub == Init /\ [][NextHub]_vars

(***************************************************************************)
(* SpecBus: the fan-out of one publish. One job run by a worker whose      *)
(* Module has a hub or not, and every connection: it subscribes, its write *)
(* pump drains its channel or stops, its read pump ends.                   *)
(***************************************************************************)
NextBus ==
  \/ nextJob < LifeJobs /\ CreateJob("anonymous", "f1", 0, TRUE)
  \/ \E j \in JobIDs : WorkerOk(j)
  \/ \E j \in JobIDs, p \in PercentChoices : OnProgress(j, p)
  \/ \E c \in Clients : HandleConnection(c)
  \/ \E c \in Clients : nextJob > 0 /\ Subscribe(c, nextJob)
  \/ \E c \in Clients : WritePump(c)
  \/ \E c \in Clients : WritePumpFails(c)
  \/ \E c \in Clients : Disconnect(c)

SpecBus == Init /\ [][NextBus]_vars

(***************************************************************************)
(* SpecFiles: the files of a job over the days. One submission by either   *)
(* kind of user, the deployed worker bringing it to its end, the hours     *)
(* passing, and the cleanup task the scheduler enqueues every hour.        *)
(***************************************************************************)
NextFiles ==
  \/ \E u \in UserIDs : nextJob < LifeJobs /\ CreateJob(u, "f1", 0, TRUE)
  \/ \E j \in JobIDs : WorkerOk(j)
  \/ \E h \in HourChoices : Elapse(h)
  \/ HandleCleanupFiles(ScheduledCleanup)

SpecFiles == InitAdmission /\ [][NextFiles]_vars

(***************************************************************************)
(* SpecList: the job list. Submissions by either kind of user at different *)
(* times, cancel calls, and list requests by either kind of user.          *)
(***************************************************************************)
NextList ==
  \/ Tick
  \/ \E u \in UserIDs : CreateJob(u, "f1", 0, TRUE)
  \/ \E j \in JobIDs : CancelJobRead(j)
  \/ \E j \in JobIDs : CancelJobWrite(j)
  \/ \E u \in UserIDs, st \in {"", StatusQueued} : ListJobs(u, st)

SpecList == Init /\ [][NextList]_vars

(***************************************************************************)
(* SpecRetry: the retry call. One submission of a single file or of a      *)
(* merge by either kind of user, the worker with its failures and retries, *)
(* and RetryJob calls.                                                     *)
(***************************************************************************)
MergeInputs == <<"f1", "f2">>

NextRetry ==
  \/ \E u \in UserIDs : nextJob < LifeJobs /\ CreateJob(u, "f1", 3000, TRUE)
  \/ \E u \in UserIDs : nextJob < LifeJobs /\ CreateMergeJob(u, MergeInputs, 3000, TRUE)
  \/ \E j \in JobIDs : Worker(j)
  \/ \E j \in JobIDs, e \in BOOLEAN : RetryJob(j, e)

SpecRetry == Init /\ [][NextRetry]_vars

(***************************************************************************)
(* SpecCalc: the pure functions of the subscription package, applied to    *)
(* durations in tenths of a second and to tier names.                      *)
(***************************************************************************)
NextCalc ==
  \/ CallConversionMinutes
  \/ CallGetTierLimits

\* The arguments of the call to be made
InitCalc ==
  /\ InitState /\ ~handlerHub
  /\ \/ \E t \in TenthsChoices :
          lastResult = [op |-> "args", fn |-> "ConversionMinutesFromDuration",
                        tenths |-> t]
     \/ \E t \in TierNameChoices :
          lastResult = [op |-> "args", fn |-> "GetTierLimits", tier |-> t]

SpecCalc == InitCalc /\ [][NextCalc]_vars

(***************************************************************************)
(* SpecOps: the operations of a job. One submission with a list of         *)
(* operations, and the deployed worker with its failures and retries.      *)
(***************************************************************************)
NextOps ==
  \/ \E o \in OperationsChoices :
        nextJob < LifeJobs /\ CreateJobWithOperations("anonymous", "f1", o, 0, TRUE)
  \/ \E j \in JobIDs : Worker(j)

SpecOps == InitAdmission /\ [][NextOps]_vars

(***************************************************************************)
(* SpecCancel: who cancels. One submission by either kind of user, cancel  *)
(* requests for it by either kind of user, and the deployed worker.        *)
(***************************************************************************)
NextCancel ==
  \/ \E u \in UserIDs : nextJob < LifeJobs /\ CreateJob(u, "f1", 0, TRUE)
  \/ \E u \in UserIDs, j \in JobIDs : CancelJob(u, j)
  \/ \E j \in JobIDs : Worker(j)

SpecCancel == InitAdmission /\ [][NextCancel]_vars

(***************************************************************************)
(* SpecUsage: the usage counter of a user. Direct calls of the             *)
(* subscription service in any order, with any minutes, as time passes.    *)
(***************************************************************************)
NextUsage ==
  \/ Tick
  \/ \E l \in LimitChoices : CheckLimit("u1", l[1], l[2])
  \/ \E m \in MinuteChoices :
        /\ (m > 0 /\ m < MaxInt4) => profiles["u1"].conversion_minutes_used <= MaxUsed - m
        /\ CallRecordConversionMinutes("u1", m)
  \/ ResetUsageForNewPeriod("u1")
  \/ \E t \in TierChoices, p \in BOOLEAN : UpdateUserTier("u1", t, p)
  \/ SetFreeTier("u1")

SpecUsage == InitAdmission /\ [][NextUsage]_vars

(***************************************************************************)
(* SpecPaths: where the outputs go. Submissions with an output format, the *)
(* deployed worker running each task, and tasks delivered again.           *)
(***************************************************************************)
NextPaths ==
  \/ \E o \in FormatChoices : CreateJobWithFormat("anonymous", "f1", o, 0, TRUE)
  \/ \E j \in JobIDs : WorkerOk(j)
  \/ \E j \in JobIDs : Redeliver(j)

SpecPaths == InitAdmission /\ [][NextPaths]_vars

(***************************************************************************)
(* SpecLive: the end of a job. Submissions, and workers that keep running: *)
(* every step of the handler is taken in the end, the database, the        *)
(* filesystem and the media tool do not fail, and a run of the media tool  *)
(* ends or is cut off by the task's timeout.                               *)
(***************************************************************************)
NextLive ==
  \/ \E u \in UserIDs, s \in DurationChoices :
        nextJob < LifeJobs /\ CreateJob(u, "f1", s, TRUE)
  \/ \E j \in JobIDs : WorkerOk(j)
  \/ \E j \in JobIDs, p \in PercentChoices : OnProgress(j, p)
  \/ \E j \in JobIDs : HandleTimeout(j)

\* Workers keep running: a task that waits is taken, and a handler that has
\* a step to take takes one
FairLive ==
  \A j \in JobIDs : WF_vars(WorkerOk(j) \/ HandleTimeout(j))

SpecLive == InitAdmission /\ [][NextLive]_vars /\ FairLive

(***************************************************************************)
(* SpecChan: the send channel of a client. The goroutines of the hub one   *)
(* step at a time: a connection is registered, its readPump subscribes,    *)
(* answers pings and ends, Hub.Run unregisters it, its writePump writes or *)
(* stops, while jobs are submitted and cancelled (SendToJob).              *)
(***************************************************************************)
NextChan ==
  \/ CreateJob("anonymous", "f1", 0, TRUE)
  \/ \E j \in JobIDs : CancelJob("anonymous", j)
  \/ \E c \in Clients : HandleConnection(c)
  \/ \E c \in Clients, j \in JobIDs : Subscribe(c, j)
  \/ \E c \in Clients : Ping(c)
  \/ \E c \in Clients : ReadPumpEnds(c)
  \/ \E c \in Clients : HubUnregister(c)
  \/ \E c \in Clients : WritePump(c)
  \/ \E c \in Clients : WritePumpFails(c)

SpecChan == InitAdmission /\ [][NextChan]_vars

(***************************************************************************)
(* SpecSubs: who gets the frames. Jobs are submitted and cancelled, and    *)
(* the clients connect, subscribe to jobs and unsubscribe from them, write *)
(* what they are sent, and disconnect.                                     *)
(***************************************************************************)
NextSubs ==
  \/ CreateJob("anonymous", "f1", 0, TRUE)
  \/ \E j \in JobIDs : CancelJob("anonymous", j)
  \/ \E c \in Clients : HandleConnection(c)
  \/ \E c \in Clients, j \in JobIDs : Subscribe(c, j)
  \/ \E c \in Clients, j \in JobIDs : Unsubscribe(c, j)
  \/ \E c \in Clients : WritePump(c)
  \/ \E c \in Clients : Disconnect(c)

SpecSubs == InitAdmission /\ [][NextSubs]_vars

(***************************************************************************)
(* SpecSeq: one job at a time. A signed-in user whose tier stays the same  *)
(* submits a job only when every job submitted before has a terminal       *)
(* status; the deployed worker runs the tasks, a task is delivered again   *)
(* after a lost lease, and the user cancels.                               *)
(***************************************************************************)
PreviousJobsTerminal(userID) ==
  \A j \in JobIDs :
     jobs[j].status # NoRowStatus /\ jobs[j].user_id = userID
       => jobs[j].status \in TerminalStatuses

NextSeq ==
  \/ \E s \in DurationChoices :
        PreviousJobsTerminal("u1") /\ CreateJob("u1", "f1", s, TRUE)
  \/ \E j \in JobIDs : CancelJob("u1", j)
  \/ \E j \in JobIDs : WorkerOk(j)
  \/ \E j \in JobIDs : Redeliver(j)

SpecSeq == InitAdmission /\ [][NextSeq]_vars

(***************************************************************************)
(* SpecMap: the requests of the API server step by step. Submissions and   *)
(* deletions that run at the same time, each in its goroutine, with the    *)
(* map of the Module they share, and the deployed worker.                  *)
(***************************************************************************)
NextMap ==
  \/ \E u \in UserIDs, s \in DurationChoices : CreateJobInsert(u, "f1", s)
  \/ \E j \in JobIDs, e \in BOOLEAN : CreateJobEnqueue(j, e)
  \/ \E j \in JobIDs : DeleteJobRow(j)
  \/ \E j \in JobIDs : DeleteJobReturn(j)
  \/ \E j \in JobIDs : WorkerOk(j)

SpecMap == InitAdmission /\ [][NextMap]_vars

(***************************************************************************)
(* Properties.                                                             *)
(***************************************************************************)
\* A step in which CompleteJob's UPDATE runs for the job and is accepted
CompleteJobUpdates(j) ==
  tasks[j].pc = "update" /\ tasks'[j].pc = "return" /\ ~CompleteJobViolatesKey(j, j)

\* C1: once the stored status of a job is completed, failed or cancelled, no
\* later CancelJob, UpdateProgress, CompleteJob or FailJob call changes it
\* (a removal of the row by DeleteJob aside).
C1_TerminalSticky ==
  [][\A j \in JobIDs :
       jobs[j].status \in TerminalStatuses
         => jobs'[j].status \in {jobs[j].status, NoRowStatus}]_vars

\* C2: a CompleteJob on a job that a CompleteJob has completed before leaves
\* the row (status, output_file_id, progress, completed_at) as the first one
\* left it, and no second job:completed frame is published for the job.
C2_IdempotentComplete ==
  [][\A j \in JobIDs :
       (CompleteJobUpdates(j) /\ firstDone[j].status # NoRowStatus
          /\ jobs[j].status # NoRowStatus)
         => /\ jobs'[j].status = firstDone[j].status
            /\ jobs'[j].output_file_id = firstDone[j].output_file_id
            /\ jobs'[j].percent = firstDone[j].percent
            /\ jobs'[j].completed_at = firstDone[j].completed_at
            /\ published'[j]["job:completed"] = published[j]["job:completed"]]_vars

\* C3: when CancelJob has committed before the worker's CompleteJob runs its
\* UPDATE, the row stays cancelled with no output file, and no job:completed
\* frame is published.
C3_CancelWins ==
  [][\A j \in JobIDs :
       (CompleteJobUpdates(j) /\ jobs[j].status = StatusCancelled)
         => /\ jobs'[j].status = StatusCancelled
            /\ jobs'[j].output_file_id = jobs[j].output_file_id
            /\ published'[j] = published[j]]_vars

\* The queue the priority routing promises to a tier
PromisedQueue(tier) ==
  CASE tier = "pro" -> "critical"
    [] tier = "basic" -> "critical"
    [] OTHER -> "default"

\* C4: the task of a pro tenant is on the critical queue, of a basic tenant
\* on the critical queue, of a free tenant on the default queue.
C4_PriorityRouting ==
  \A j \in JobIDs :
    (tasks[j].state # "none" /\ tasks[j].tier \in {"pro", "basic", "free"})
      => tasks[j].queue = PromisedQueue(tasks[j].tier)

RECURSIVE SumMinutes(_)
SumMinutes(S) ==
  IF S = {} THEN 0
  ELSE LET x == CHOOSE y \in S : TRUE IN x.minutes + SumMinutes(S \ {x})

\* C5: whenever no CompleteJob is between its two statements, the minutes
\* added to a signed-in user's conversion_minutes_used since its last reset
\* are the sum of conversion_minutes over the user's jobs whose row was set
\* to completed since then.
C5_ChargedOnce ==
  (\A j \in JobIDs : tasks[j].pc # "update")
    => \A u \in UserIDs \ {"anonymous"} : charged[u] = SumMinutes(chargedJobs[u])

\* C6: CheckLimit(user, "conversion_minutes", value) succeeds exactly when
\* conversion_minutes_used + value is at most the limit of the user's tier;
\* a user without a profile gets one with tier free and no minutes used
\* first; the minutes used are never changed.
C6_CheckLimit ==
  [][(lastResult'.op = "CheckLimit" /\ lastResult'.limitType = "conversion_minutes")
       => LET u == lastResult'.user
              before == profiles[u]
              after == profiles'[u]
          IN /\ after.exists
             /\ ~before.exists => (after.tier = "free" /\ after.conversion_minutes_used = 0)
             /\ before.exists => after = before
             /\ after.conversion_minutes_used = before.conversion_minutes_used
             /\ lastResult'.ok <=>
                  (after.conversion_minutes_used + lastResult'.value
                     <= tierLimits[after.tier].ConversionMinutes)
             /\ \A v \in UserIDs \ {u} : profiles'[v] = profiles[v]]_vars

\* A limit check of a user with minutes used was refused
C6_Witness ==
  /\ lastResult.op = "CheckLimit"
  /\ lastResult.limitType = "conversion_minutes"
  /\ ~lastResult.ok
  /\ profiles[lastResult.user].conversion_minutes_used > 0
  /\ profiles[lastResult.user].conversion_minutes_used + lastResult.value
       = tierLimits[profiles[lastResult.user].tier].ConversionMinutes + 1

\* C7 as stated: for a free user, once the submissions accepted since the
\* last reset total 50 minutes, the next one-minute submission is refused by
\* the limit check.
C7_AdmittedCounts ==
  [][(/\ lastResult'.op = "CreateJob"
      /\ lastResult'.minutes = 1
      /\ profiles'[lastResult'.user].tier = "free"
      /\ admitted[lastResult'.user] = 50)
       => lastResult'.reason = "limit"]_vars

\* C7: for a free user (limit 50) a submission of m minutes passes the limit
\* check exactly when conversion_minutes_used + m <= 50, where only completed
\* jobs add to conversion_minutes_used; so a one-minute submission is refused
\* once 50 minutes are used, and ResetUsageForNewPeriod sets the minutes used
\* to 0, after which it is accepted.
C7_QuotaRoundTrip ==
  [][/\ (lastResult'.op = "CreateJob" /\ profiles'[lastResult'.user].tier = "free")
          => /\ (lastResult'.reason = "limit") <=>
                  (profiles[lastResult'.user].conversion_minutes_used
                     + lastResult'.minutes > 50)
             /\ profiles'[lastResult'.user].conversion_minutes_used
                  = profiles[lastResult'.user].conversion_minutes_used
     /\ lastResult'.op = "ResetUsageForNewPeriod"
          => /\ profiles'[lastResult'.user].conversion_minutes_used = 0
             /\ ~CheckLimitError(profiles'[lastResult'.user], "conversion_minutes", 1)
               \/ profiles'[lastResult'.user].tier # "free"
     /\ \A u \in UserIDs :
          profiles'[u].conversion_minutes_used > profiles[u].conversion_minutes_used
            => \E j \in JobIDs : tasks[j].pc = "complete" /\ tasks'[j].pc = "update"]_vars

\* A one-minute submission of a free user with 50 minutes used was refused
C7_Witness ==
  /\ lastResult.op = "CreateJob"
  /\ lastResult.minutes = 1
  /\ lastResult.reason = "limit"
  /\ profiles[lastResult.user].tier = "free"
  /\ profiles[lastResult.user].conversion_minutes_used = 50
  /\ admitted[lastResult.user] = 50

\* C8: a CreateJob that fails at admission (the minutes limit would be
\* exceeded, or the input file id resolves to no file) inserts no job row
\* and enqueues no task.
C8_AdmissionFailure ==
  [][(/\ lastResult'.op = "CreateJob"
      /\ \/ lastResult'.file \notin files
         \/ profiles'[lastResult'.user].conversion_minutes_used + lastResult'.minutes
              > tierLimits[profiles'[lastResult'.user].tier].ConversionMinutes)
       => /\ ~lastResult'.ok
          /\ jobs' = jobs
          /\ tasks' = tasks
          /\ nextJob' = nextJob]_vars

\* A submission was refused by the limit check while a job of the user exists
C8_Witness ==
  /\ lastResult.op = "CreateJob"
  /\ lastResult.reason = "limit"
  /\ nextJob > 0
  /\ \E j \in JobIDs : jobs[j].status = StatusCompleted

C11_PublishNeverBlocks ==
  [][\A j \in JobIDs :
       pubTick'[j] # pubTick[j]
         => \E msg \in {ProgressMsg(j, jobs'[j].percent), CompletedMsg(j), FailedMsg(j)} :
              \A c \in Clients :
                send'[c] = IF c \in hubClients /\ j \in subscriptions[c]
                               /\ Len(send[c]) < SendBuf
                           THEN Append(send[c], msg)
                           ELSE send[c]]_vars

\* The job:completed frame reached a subscribed client while another
\* subscribed client was full and its write pump had stopped: that client's
\* channel holds two job:progress frames, all of them published before the
\* job:completed frame, and nothing takes a message off it any more.
C11_Witness ==
  \E a, b \in Clients, j \in JobIDs :
    /\ a # b
    /\ a \in hubClients /\ a \notin connected /\ j \in subscriptions[a]
    /\ b \in hubClients /\ j \in subscriptions[b]
    /\ send[a] = <<ProgressMsg(j, 50), ProgressMsg(j, 50)>>
    /\ send[b] # <<>> /\ send[b][Len(send[b])] = CompletedMsg(j)
    /\ published[j]["job:completed"] = 1

\* C10: a SendToJob that finds the send channel of a subscribed client full
\* removes the client from the hub's clients and closes its connection.
C10_FullBufferDropped ==
  [][\A c \in Clients, j \in JobIDs :
       (pubTick'[j] # pubTick[j] /\ c \in hubClients /\ j \in subscriptions[c]
          /\ Len(send[c]) = SendBuf)
         => (c \notin hubClients' /\ c \notin connected')]_vars

\* A step in which the handler's UpdateProgress stores a percent for the job:
\* the "Starting..." call, or a callback that changes the stored percent
ExecutorProgress(j) ==
  \/ tasks[j].pc = "start" /\ tasks'[j].pc = "mkdir"
  \/ /\ tasks[j].state = "active" /\ tasks[j].pc = "process" /\ tasks'[j] = tasks[j]
     /\ jobs[j].status # NoRowStatus /\ jobs'[j].percent # jobs[j].percent

\* C12: a client that is connected, subscribed to a job and has room in its
\* send channel gets the job:progress frame of every progress update the
\* handler makes for the job, and the job:completed frame when CompleteJob
\* runs its UPDATE.
C12_SubscriberGetsAll ==
  [][\A c \in Clients, j \in JobIDs :
       (c \in connected /\ c \in hubClients /\ j \in subscriptions[c]
          /\ Len(send[c]) < SendBuf)
         => /\ ExecutorProgress(j)
                 => send'[c] = Append(send[c], ProgressMsg(j, jobs'[j].percent))
            /\ CompleteJobUpdates(j)
                 => send'[c] = Append(send[c], CompletedMsg(j))]_vars

\* A step in which CancelJob runs its UPDATE and its broadcast for the job
CancelJobWrites(j) == j \in cancelCalls /\ j \notin cancelCalls'

\* C13: the frame CancelJob publishes for the job is not a job:failed frame
\* (it has a type of its own), and once the row is cancelled no job:completed
\* frame is published for the job.
C13_CancelledEvent ==
  [][\A j \in JobIDs :
       /\ CancelJobWrites(j)
            => published'[j]["job:failed"] = published[j]["job:failed"]
       /\ jobs[j].status = StatusCancelled
            => published'[j]["job:completed"] = published[j]["job:completed"]]_vars

\* C14: RetryJob goes on only when the status of the row is failed. It then
\* makes a new job with a new id, status queued, progress 0 and no error,
\* with the owner of the old job and with its input files (all of them for a
\* merge) in the task, and leaves the old row as it is; for any other status
\* it returns an error and nothing is created.
C14_RetryJob ==
  [][lastResult'.op = "RetryJob"
       => LET old == lastResult'.old
              new == nextJob'
          IN /\ jobs[old].status # StatusFailed
                  => /\ ~lastResult'.ok
                     /\ jobs' = jobs /\ tasks' = tasks /\ nextJob' = nextJob
             /\ (jobs[old].status = StatusFailed /\ lastResult'.ok)
                  => /\ new # old /\ jobs[new].status = NoRowStatus
                     /\ jobs'[new].status = StatusQueued
                     /\ jobs'[new].percent = 0
                     /\ jobs'[new].error = NoError
                     /\ jobs'[new].user_id = jobs[old].user_id
                     /\ jobs'[new].input_file_id = jobs[old].input_file_id
                     /\ tasks[old].state # "none"
                          => tasks'[new].inputs = tasks[old].inputs
                     /\ jobs'[old] = jobs[old]]_vars

\* C15: a CancelJob that finds the status completed, failed or cancelled
\* returns its error: it does not go on to its UPDATE and its broadcast, so
\* the row and the published frames stay as they are.
C15_CancelTerminalRefused ==
  [][\A j \in JobIDs :
       (jobs[j].status \in TerminalStatuses /\ j \notin cancelCalls)
         => j \notin cancelCalls']_vars

\* C20: when the attempt that exhausts the retries fails in the media tool,
\* the row is failed with error.retryable set, and the row of a job whose
\* task is archived stays failed (a removal of the row by DeleteJob aside).
C20_ExhaustedStaysFailed ==
  [][\A j \in JobIDs :
       /\ (tasks[j].pc = "process" /\ tasks'[j].state = "archived"
             /\ jobs[j].status # NoRowStatus)
            => (jobs'[j].status = StatusFailed /\ jobs'[j].error.retryable)
       /\ (tasks[j].state = "archived" /\ jobs[j].status = StatusFailed)
            => jobs'[j].status \in {StatusFailed, NoRowStatus}]_vars

\* C16: the list ListJobs returns to a caller holds only jobs whose owner is
\* the caller (a NULL owner for the anonymous caller), newest first, and at
\* most 50 of them.
C16_ListIsolation ==
  lastResult.op = "ListJobs"
    => LET l == lastResult.result
       IN /\ \A i \in 1..Len(l) : jobs[l[i]].user_id = nullString(lastResult.user)
          /\ \A i, k \in 1..Len(l) :
               i < k => jobs[l[i]].created_at >= jobs[l[k]].created_at
          /\ Len(l) <= 50

\* C17: after a run of the scheduled cleanup task, no file whose expires_at
\* is before now is left in the files table or in storage, and every file
\* whose expires_at is null is still there.
C17_ExpirySweep ==
  [][lastResult'.op = "HandleCleanupFiles"
       => /\ \A f \in files : UploadRow.expires_at < clock => f \notin files'
          /\ \A j \in JobIDs :
               /\ (outputFiles[j].exists /\ outputFiles[j].expires_at # NullTime
                     /\ outputFiles[j].expires_at < clock)
                    => (~outputFiles'[j].exists /\ ~outputFiles'[j].stored)
               /\ (outputFiles[j].exists /\ outputFiles[j].expires_at = NullTime)
                    => outputFiles'[j] = outputFiles[j]]_vars

\* C18: every row the task handler inserts into files has zone output and an
\* expires_at that is set, 24 hours after its created_at.
C18_OutputExpiry ==
  \A j \in JobIDs :
    outputFiles[j].exists
      => /\ outputFiles[j].zone = "output"
         /\ outputFiles[j].expires_at # NullTime
         /\ outputFiles[j].expires_at = outputFiles[j].created_at + 24

\* C19: the row the task handler inserts into files for a job has the
\* user_id of the job's row (NULL for an anonymous job).
C19_OutputOwner ==
  \A j \in JobIDs :
    (outputFiles[j].exists /\ jobs[j].status # NoRowStatus)
      => outputFiles[j].user_id = jobs[j].user_id

\* C21: ConversionMinutesFromDuration(s) is max(1, ceil(s / 60)): the least
\* m >= 1 with 60 * m >= s; so it is 1 exactly for s <= 60, also for zero
\* and negative s.
C21_MinutesLaw ==
  lastResult.op = "ConversionMinutesFromDuration"
    => LET t == lastResult.tenths
           m == lastResult.result
       IN /\ m >= 1
          /\ 600 * m >= t
          /\ m > 1 => 600 * (m - 1) < t
          /\ (m = 1) <=> (t <= 600)

\* 3661 seconds are 62 minutes
C21_Witness ==
  /\ lastResult.op = "ConversionMinutesFromDuration"
  /\ lastResult.tenths = 36610
  /\ lastResult.result = 62

\* C22: GetTierLimits gives free, basic, standard and pro their own limits and
\* every other tier name, the empty one included, the limits of free: 50
\* minutes, 500 MB, priority default, no GPU.
C22_TierDefaults ==
  lastResult.op = "GetTierLimits"
    => /\ lastResult.tier \notin {"free", "basic", "standard", "pro"}
            => lastResult.result
                 = [ConversionMinutes |-> 50, MaxFileSizeBytes |-> 500,
                    Priority |-> "default", UseGPUEncoding |-> FALSE]
       /\ lastResult.tier \in {"free", "basic", "standard", "pro"}
            => lastResult.result = tierLimits[lastResult.tier]
       /\ lastResult.tier = "free" => lastResult.result.ConversionMinutes = 50

\* The empty tier name was looked up and got the limits of free
C22_Witness ==
  /\ lastResult.op = "GetTierLimits"
  /\ lastResult.tier = ""
  /\ lastResult.result = tierLimits["free"]

\* C23: a CreateJob whose enqueue fails returns an error and leaves the row
\* it inserted failed, with error code ENQUEUE_FAILED, retryable, and
\* completed_at set.
C23_EnqueueFailed ==
  [][(lastResult'.op = "CreateJob" /\ lastResult'.reason = "enqueue")
       => LET row == jobs'[nextJob']
          IN /\ ~lastResult'.ok
             /\ row.status = StatusFailed
             /\ row.error.code = "ENQUEUE_FAILED"
             /\ row.error.retryable
             /\ row.completed_at # NullTime]_vars

\* A step in which the handler, started on the task of the job, gets past
\* its first statement
HandlerStarts(j) == tasks[j].pc = "start" /\ tasks'[j].pc # "start"

\* C24: a handler started on the task of a job whose row is completed,
\* failed or cancelled leaves the row as it is and returns nil (the task is
\* done), without running the media tool.
C24_TerminalTaskSkipped ==
  [][\A j \in JobIDs :
       (HandlerStarts(j) /\ jobs[j].status \in TerminalStatuses)
         => /\ jobs'[j] = jobs[j]
            /\ tasks'[j].state = "completed"]_vars

\* C25: no more than one terminal frame (job:completed or job:failed, the
\* frame of a cancel included) is published for a job.
C25_OneTerminalEvent ==
  \A j \in JobIDs :
    published[j]["job:completed"] + published[j]["job:failed"] <= 1

\* C26: a progress update of the handler for a job whose row is completed,
\* failed or cancelled leaves status, progress and started_at of the row as
\* they are and publishes no frame.
C26_ProgressOnTerminal ==
  [][\A j \in JobIDs :
       (jobs[j].status \in TerminalStatuses
          /\ \/ HandlerStarts(j)
             \/ tasks[j].state = "active" /\ tasks[j].pc = "process"
                  /\ tasks'[j] = tasks[j])
         => /\ jobs'[j].status = jobs[j].status
            /\ jobs'[j].percent = jobs[j].percent
            /\ jobs'[j].started_at = jobs[j].started_at
            /\ pubTick'[j] = pubTick[j]]_vars

\* C27: once completed_at of a row is set, no call changes it (a removal of
\* the row by DeleteJob aside).
C27_CompletedAtOnce ==
  [][\A j \in JobIDs :
       (jobs[j].completed_at # NullTime /\ jobs'[j].status # NoRowStatus)
         => jobs'[j].completed_at = jobs[j].completed_at]_vars

\* C28: a row with status completed has output_file_id set, progress 100 and
\* completed_at set; a row with status failed or cancelled has completed_at
\* set.
C28_TerminalFields ==
  \A j \in JobIDs :
    /\ jobs[j].status = StatusCompleted
         => /\ jobs[j].output_file_id # NullID
            /\ jobs[j].percent = 100
            /\ jobs[j].completed_at # NullTime
    /\ jobs[j].status \in {StatusFailed, StatusCancelled}
         => jobs[j].completed_at # NullTime

\* C29: DeleteJob removes the row of the job whatever its status and changes
\* no other row, no row of files and no blob; for an id without a row it
\* returns an error and changes nothing; and no step makes a row exist again
\* for an id whose row was removed.
C29_DeleteJob ==
  [][/\ lastResult'.op = "DeleteJob"
          => LET j == lastResult'.job
             IN /\ lastResult'.ok <=> (jobs[j].status # NoRowStatus)
                /\ jobs' = [jobs EXCEPT ![j] = NoRow]
                /\ files' = files
                /\ outputFiles' = outputFiles
                /\ tasks' = tasks
     /\ \A j \in JobIDs :
          (j <= nextJob /\ jobs[j].status = NoRowStatus)
            => jobs'[j].status = NoRowStatus]_vars

\* The row of a job was removed while the worker is in the handler for it,
\* after the job's output file was written and its row in files inserted
C29_Witness ==
  /\ lastResult.op = "DeleteJob" /\ lastResult.ok
  /\ LET j == lastResult.job
     IN /\ jobs[j].status = NoRowStatus
        /\ outputFiles[j].exists /\ outputFiles[j].stored
        /\ tasks[j].state = "active" /\ tasks[j].pc = "complete"


\* C30: for a job with an operation of a type the media processor has no
\* case for, the media tool is never run (it writes no output) and the job
\* is never completed.
C30_UnknownOperation ==
  \A j \in JobIDs :
    (tasks[j].state # "none"
       /\ Len(buildFFmpegArgs(tasks[j].operations)) < Len(tasks[j].operations))
      => /\ ~outputFiles[j].stored
         /\ jobs[j].status # StatusCompleted

\* C31: when the INSERT of the output file row has failed (no file row has
\* the job's id) and the handler goes on to CompleteJob, the UPDATE of
\* CompleteJob leaves the job row with status completed.
C31_CompletedWithoutFileRow ==
  [][\A j \in JobIDs :
       (tasks[j].pc = "update" /\ tasks'[j].pc = "return"
          /\ jobs[j].status # NoRowStatus /\ ~outputFiles[j].exists)
         => jobs'[j].status = StatusCompleted]_vars

\* C32: a CancelJob request for a job of user u1 made by another user is
\* refused and leaves the job row as it was.
C32_CancelByOwnerOnly ==
  [][\A j \in JobIDs :
       (lastResult'.op = "CancelJob" /\ lastResult'.job = j
          /\ jobs[j].status # NoRowStatus /\ jobs[j].user_id = "u1"
          /\ lastResult'.user # "u1")
         => (~lastResult'.ok /\ jobs'[j] = jobs[j])]_vars

\* C33: in every reachable state the minutes used of every user are >= 0,
\* whatever CheckLimit, RecordConversionMinutes (with positive, zero and
\* negative minutes), ResetUsageForNewPeriod, UpdateUserTier and SetFreeTier
\* calls were made.
C33_MinutesUsedNotNegative ==
  \A u \in UserIDs : profiles[u].conversion_minutes_used >= 0

\* A RecordConversionMinutes call with negative minutes has just been made
\* for a user who has minutes on the counter
C33_Witness ==
  /\ lastResult.op = "RecordConversionMinutes"
  /\ lastResult.minutes < 0
  /\ profiles[lastResult.user].exists
  /\ profiles[lastResult.user].conversion_minutes_used > 0

\* C34: whatever executions the tasks have had, no two rows of files have
\* the same storage_path: not the output rows of two jobs (a job has one
\* output row, its id being the job's id), and not an output row and the
\* row of an uploaded file.
C34_StoragePathUnique ==
  /\ \A j, k \in JobIDs :
       (j # k /\ outputFiles[j].exists /\ outputFiles[k].exists)
         => outputFiles[j].storage_path # outputFiles[k].storage_path
  /\ \A j \in JobIDs, f \in files :
       outputFiles[j].exists => outputFiles[j].storage_path # UploadPath(f)

\* C35: a job whose task was enqueued reaches a terminal status in the end
\* (completed, failed or cancelled), when workers keep running and every run
\* of the media tool ends or is cut off by the timeout of the task.
C35_EventuallyTerminal ==
  \A j \in JobIDs :
    (tasks[j].state = "pending" /\ jobs[j].status = StatusQueued)
      ~> (jobs[j].status \in TerminalStatuses)

\* C36: whatever the order of the steps of registration, readPump (ping,
\* end), Hub.Run's unregister, SendToJob and writePump, the send channel of a
\* client is never closed a second time, and a message is put on it only
\* while it is open.
C36_ChannelClosedOnce ==
  [][\A c \in Clients :
       /\ pumps'[c].ch # "fault"
       /\ Len(send'[c]) > Len(send[c]) => (pumps[c].ch = "open" /\ pumps'[c].ch = "open")]_vars

\* The channel of a client was closed while the client is subscribed to a
\* job, and a CancelJob has just published the job's frame
C36_Witness ==
  /\ lastResult.op = "CancelJob" /\ lastResult.ok
  /\ \E c \in Clients :
       /\ pumps[c].ch = "closed"
       /\ lastResult.job \in subscriptions[c]
       /\ send[c] # <<>>

\* C37: a frame for a job is put on the channel of a client only when the
\* client is subscribed to the job at that moment, and a step that changes
\* the subscriptions of one client leaves those of every other client alone.
C37_OnlySubscribers ==
  [][\A c \in Clients :
       /\ Len(send'[c]) > Len(send[c])
            => send'[c][Len(send'[c])].jobId \in subscriptions[c]
       /\ subscriptions'[c] # subscriptions[c]
            => \A d \in Clients \ {c} : subscriptions'[d] = subscriptions[d]]_vars

\* A CancelJob has just published the frame of a job: a client subscribed to
\* the job has it, and a client of the hub that unsubscribed or subscribed
\* to another job only has nothing
C37_Witness ==
  /\ lastResult.op = "CancelJob" /\ lastResult.ok
  /\ \E c, d \in hubClients :
       /\ c # d
       /\ lastResult.job \in subscriptions[c]
       /\ send[c] = <<FailedMsg(lastResult.job)>>
       /\ subscriptions[d] # {} /\ lastResult.job \notin subscriptions[d]
       /\ send[d] = <<>>

\* C38: a user whose tier does not change and who submits a job only after
\* the jobs submitted before reached a terminal status never has more
\* minutes used than the conversion minutes of the tier
C38_SequentialWithinLimit ==
  profiles["u1"].exists
    => profiles["u1"].conversion_minutes_used
         <= GetTierLimits(profiles["u1"].tier).ConversionMinutes

\* C39: the map of jobs of the API server is never written by one call
\* while another call has an access to it under way
C39_MapAccessExclusive ==
  Cardinality(mapAccess) <= 1

\* The states of a task that is on a queue, waiting or with a worker
VisibleStates == {"pending", "active"}

\* C40: the row of a job is inserted with status queued in a step that
\* leaves its task on no queue; a task comes onto a queue only for a job id
\* whose row was inserted before, and a worker starts only such a task
C40_InsertedBeforeVisible ==
  [][\A j \in JobIDs :
       /\ (jobs[j].status = NoRowStatus /\ jobs'[j].status # NoRowStatus)
            => /\ jobs'[j].status = StatusQueued
               /\ tasks[j].state = "none"
               /\ tasks'[j].state \notin VisibleStates
       /\ (tasks[j].state \notin VisibleStates /\ tasks'[j].state \in VisibleStates)
            => tasks[j].state = "building" /\ j <= nextJob
       /\ HandlerStarts(j) => j <= nextJob /\ tasks[j].state = "active"]_vars

\* C40: a worker has started the task of one job while the row of another
\* is inserted and its task is not yet on a queue
C40_Witness ==
  \E j, k \in JobIDs :
     /\ tasks[j].state = "active" /\ tasks[j].pc = "mkdir"
     /\ jobs[j].status = StatusProcessing
     /\ tasks[k].state = "building" /\ jobs[k].status = StatusQueued

====
